---- MODULE Spec2Model ----
(***************************************************************************)
(* Node selection methods of core/dbt/graph/selector_methods.py.           *)
(*                                                                         *)
(* Python strings that the code splits, joins, globs or searches are       *)
(* sequences of one-character strings (<<"d","a","t","a">> is "data").     *)
(* Unique ids and macro ids are only compared for equality and used as     *)
(* mapping keys, so they are plain strings.  None, where a string is       *)
(* optional, is the one-element sequence <<"None">>, which no string of    *)
(* characters equals.                                                      *)
(***************************************************************************)
EXTENDS Integers, Sequences, FiniteSets, TLC

(***************************************************************************)
(* Strings                                                                 *)
(***************************************************************************)
None == <<"None">>

Lowercase == <<"a", "b", "c", "d", "e", "f", "g", "h", "i", "j", "k", "l", "m",
               "n", "o", "p", "q", "r", "s", "t", "u", "v", "w", "x", "y", "z">>

Uppercase == <<"A", "B", "C", "D", "E", "F", "G", "H", "I", "J", "K", "L", "M",
               "N", "O", "P", "Q", "R", "S", "T", "U", "V", "W", "X", "Y", "Z">>

\* str.upper() of one character
UpperChar(c) ==
    IF \E i \in 1..Len(Lowercase) : Lowercase[i] = c
    THEN Uppercase[CHOOSE i \in 1..Len(Lowercase) : Lowercase[i] = c]
    ELSE c

\* str.upper()
Upper(s) == [i \in 1..Len(s) |-> UpperChar(s[i])]

\* s[lo-1:] of Python, 1-based: the elements from position lo on
From(s, lo) == IF lo > Len(s) THEN <<>> ELSE SubSeq(s, lo, Len(s))

\* s[-2:] of Python: the last two elements, or all of a shorter sequence
LastTwo(s) == IF Len(s) <= 2 THEN s ELSE SubSeq(s, Len(s) - 1, Len(s))

\* the position of the first occurrence of character c in s, 0 when absent
FirstIndex(s, c) ==
    IF \E i \in 1..Len(s) : s[i] = c
    THEN CHOOSE i \in 1..Len(s) : s[i] = c /\ \A j \in 1..(i - 1) : s[j] # c
    ELSE 0

\* str.split(sep) for a one-character separator: "".split(".") is [""]
RECURSIVE Split(_, _)
Split(s, sep) ==
    LET i == FirstIndex(s, sep)
    IN  IF i = 0 THEN <<s>>
        ELSE <<SubSeq(s, 1, i - 1)>> \o Split(From(s, i + 1), sep)

\* sep.join(parts)
RECURSIVE Join(_, _)
Join(parts, sep) ==
    IF parts = <<>> THEN <<>>
    ELSE IF Len(parts) = 1 THEN parts[1]
    ELSE parts[1] \o <<sep>> \o Join(Tail(parts), sep)

\* the concatenation of a sequence of sequences
RECURSIVE Flatten(_)
Flatten(ss) == IF ss = <<>> THEN <<>> ELSE Head(ss) \o Flatten(Tail(ss))

\* `sub in s` for two Python strings: substring containment
IsSubstring(sub, s) ==
    \E i \in 1..(Len(s) + 1) :
        /\ i + Len(sub) - 1 <= Len(s)
        /\ SubSeq(s, i, i + Len(sub) - 1) = sub

\* the elements of a sequence
Range(s) == {s[i] : i \in 1..Len(s)}

\* the subsequence of s whose elements are in keep, in the order of s
RECURSIVE SelectIn(_, _)
SelectIn(s, keep) ==
    IF s = <<>> THEN <<>>
    ELSE (IF Head(s) \in keep THEN <<Head(s)>> ELSE <<>>) \o SelectIn(Tail(s), keep)

(***************************************************************************)
(* fnmatch.fnmatch(name, pat) on POSIX (normcase is the identity): `*`     *)
(* matches any run of characters, `?` one character, `[seq]` one character *)
(* of seq and `[!seq]` one character not of seq; a `[` that no `]` closes  *)
(* is a literal.  Ranges (`a-z`) are not modelled: no pattern of the model *)
(* holds a `-`.                                                            *)
(***************************************************************************)
\* the position of the `]` closing the class opened at pat[i] = "[", 0 if none
ClassEnd(pat, i) ==
    LET j0 == IF i + 1 <= Len(pat) /\ pat[i + 1] = "!" THEN i + 2 ELSE i + 1
        j1 == IF j0 <= Len(pat) /\ pat[j0] = "]" THEN j0 + 1 ELSE j0
    IN  IF \E j \in j1..Len(pat) : pat[j] = "]"
        THEN CHOOSE j \in j1..Len(pat) : pat[j] = "]" /\ \A k \in j1..(j - 1) : pat[k] # "]"
        ELSE 0

RECURSIVE fnmatch(_, _)
fnmatch(name, pat) ==
    IF pat = <<>> THEN name = <<>>
    ELSE IF Head(pat) = "*"
         THEN fnmatch(name, Tail(pat)) \/ (name # <<>> /\ fnmatch(Tail(name), pat))
    ELSE IF Head(pat) = "?"
         THEN name # <<>> /\ fnmatch(Tail(name), Tail(pat))
    ELSE IF Head(pat) = "[" /\ ClassEnd(pat, 1) # 0
         THEN LET e       == ClassEnd(pat, 1)
                  negated == pat[2] = "!"
                  stuff   == Range(SubSeq(pat, IF negated THEN 3 ELSE 2, e - 1))
              IN  /\ name # <<>>
                  /\ (Head(name) \in stuff) # negated
                  /\ fnmatch(Tail(name), From(pat, e + 1))
    ELSE name # <<>> /\ Head(name) = Head(pat) /\ fnmatch(Tail(name), Tail(pat))

(***************************************************************************)
(* Selector strings and the strings of the sample project                  *)
(***************************************************************************)
s_star == <<"*">>
s_this == <<"t", "h", "i", "s">>
s_pkg == <<"p", "k", "g">>
s_other == <<"o", "t", "h", "e", "r">>
s_orders == <<"o", "r", "d", "e", "r", "s">>
s_v2 == <<"v", "2">>
s_orders_v2 == <<"o", "r", "d", "e", "r", "s", "_", "v", "2">>
s_orders_dot_v2 == <<"o", "r", "d", "e", "r", "s", ".", "v", "2">>
s_pkg_star == <<"p", "k", "g", ".", "*">>
s_generic == <<"g", "e", "n", "e", "r", "i", "c">>
s_schema == <<"s", "c", "h", "e", "m", "a">>
s_data == <<"d", "a", "t", "a">>
s_singular == <<"s", "i", "n", "g", "u", "l", "a", "r">>
s_unit == <<"u", "n", "i", "t">>
s_at == <<"a", "t">>
s_latest == <<"l", "a", "t", "e", "s", "t">>
s_prerelease == <<"p", "r", "e", "r", "e", "l", "e", "a", "s", "e">>
s_old == <<"o", "l", "d">>
s_none == <<"n", "o", "n", "e">>
s_bogus == <<"b", "o", "g", "u", "s">>
s_true == <<"t", "r", "u", "e">>
s_false == <<"f", "a", "l", "s", "e">>
s_True == <<"T", "r", "u", "e">>
s_False == <<"F", "a", "l", "s", "e">>
s_FALSE == <<"F", "A", "L", "S", "E">>
s_warn == <<"w", "a", "r", "n">>
s_WARN == <<"W", "A", "R", "N">>
s_error == <<"e", "r", "r", "o", "r">>
s_fresher == <<"f", "r", "e", "s", "h", "e", "r">>
s_success == <<"s", "u", "c", "c", "e", "s", "s">>
s_public == <<"p", "u", "b", "l", "i", "c">>
s_protected == <<"p", "r", "o", "t", "e", "c", "t", "e", "d">>
s_nightly == <<"n", "i", "g", "h", "t", "l", "y">>
s_night_star == <<"n", "i", "g", "h", "t", "*">>
s_finance == <<"f", "i", "n", "a", "n", "c", "e">>
s_stripe == <<"s", "t", "r", "i", "p", "e">>
s_charges == <<"c", "h", "a", "r", "g", "e", "s">>
s_not_null == <<"n", "o", "t", "_", "n", "u", "l", "l">>
s_dash == <<"d", "a", "s", "h">>
s_revenue == <<"r", "e", "v", "e", "n", "u", "e">>
s_sem == <<"s", "e", "m">>
s_query == <<"q", "u", "e", "r", "y">>
s_ut == <<"u", "t">>
s_check == <<"c", "h", "e", "c", "k">>
s_view == <<"v", "i", "e", "w">>
s_modified == <<"m", "o", "d", "i", "f", "i", "e", "d">>
s_unmodified == <<"u", "n", "m", "o", "d", "i", "f", "i", "e", "d">>
s_new == <<"n", "e", "w">>

\* `a.b` and `a.b.c`: a + "." + b
Dot(a, b) == a \o <<".">> \o b

\* `a/b`
Slash(a, b) == a \o <<"/">> \o b

(***************************************************************************)
(* NodeType (dbt.node_types, imported at line 34): the values the          *)
(* resource_type selector parses to                                        *)
(***************************************************************************)
s_model == <<"m", "o", "d", "e", "l">>
s_test == <<"t", "e", "s", "t">>
s_source == <<"s", "o", "u", "r", "c", "e">>
s_exposure == <<"e", "x", "p", "o", "s", "u", "r", "e">>
s_metric == <<"m", "e", "t", "r", "i", "c">>
s_unit_test == <<"u", "n", "i", "t", "_", "t", "e", "s", "t">>
s_semantic_model == <<"s", "e", "m", "a", "n", "t", "i", "c", "_", "m", "o", "d", "e", "l">>
s_saved_query == <<"s", "a", "v", "e", "d", "_", "q", "u", "e", "r", "y">>
s_seed == <<"s", "e", "e", "d">>
s_snapshot == <<"s", "n", "a", "p", "s", "h", "o", "t">>
s_analysis == <<"a", "n", "a", "l", "y", "s", "i", "s">>
s_macro == <<"m", "a", "c", "r", "o">>

NodeType == {s_model, s_analysis, s_test, s_snapshot, s_seed, s_source, s_macro,
             s_exposure, s_metric, s_unit_test, s_semantic_model, s_saved_query}

(***************************************************************************)
(* MethodName, lines 45-66                                                 *)
(***************************************************************************)
MethodName == {"fqn", "tag", "group", "access", "source", "path", "file", "package",
               "config", "test_name", "test_type", "resource_type", "state", "exposure",
               "metric", "result", "source_status", "version", "semantic_model",
               "saved_query", "unit_test"}

(***************************************************************************)
(* is_selected_node, lines 69-108.  fqn is a sequence of strings; the      *)
(* manifest keeps len(fqn) >= 2 for a versioned node and >= 1 otherwise,   *)
(* so fqn[-2] and fqn[-1] exist.                                           *)
(***************************************************************************)
HasWildcard(part) == \E i \in 1..Len(part) : part[i] \in {"*", "?", "[", "]"}

is_selected_node(fqn, node_selector, is_versioned) ==
    LET parts    == Split(node_selector, ".")
        flat_fqn == Flatten([i \in 1..Len(fqn) |-> Split(fqn[i], ".")])
        leaf     == IF is_versioned
                    THEN \/ fqn[Len(fqn) - 1] = node_selector
                         \/ Join(LastTwo(fqn), "_") = Join(LastTwo(parts), "_")
                    ELSE fqn[Len(fqn)] = node_selector
        \* the first selector part holding a wildcard, or Len(parts) + 1
        wild     == IF \E i \in 1..Len(parts) : HasWildcard(parts[i])
                    THEN CHOOSE i \in 1..Len(parts) :
                            HasWildcard(parts[i]) /\ \A j \in 1..(i - 1) : ~HasWildcard(parts[j])
                    ELSE Len(parts) + 1
    IN  IF leaf THEN TRUE
        ELSE IF Len(flat_fqn) < Len(parts) THEN FALSE
        ELSE IF \E i \in 1..(wild - 1) : flat_fqn[i] # parts[i] THEN FALSE
        ELSE IF wild <= Len(parts)
             THEN fnmatch(Join(From(flat_fqn, wild), "."), Join(From(parts, wild), "."))
        ELSE TRUE

(***************************************************************************)
(* Nodes.  One record shape for every SelectorTarget; a has_ field says    *)
(* whether hasattr() finds the attribute on the node's class.              *)
(*   cls                the node's Python class (isinstance)               *)
(*   config             a mapping from keys to values, each value          *)
(*                      [t |-> "str", v |-> string], [t |-> "bool", v |->  *)
(*                      BOOLEAN], [t |-> "none"], [t |-> "list", v |->     *)
(*                      sequence of values] or [t |-> "dict", v |-> map]   *)
(*   same               for each structural-equality predicate the class   *)
(*                      defines (same_body, same_config, ...), the part of *)
(*                      the node that predicate compares                   *)
(*   contract_enforced  what same_contract_removed() returns               *)
(***************************************************************************)
StrV(s) == [t |-> "str", v |-> s]

BoolV(b) == [t |-> "bool", v |-> b]

NoneV == [t |-> "none"]

ListV(l) == [t |-> "list", v |-> l]

DictV(d) == [t |-> "dict", v |-> d]

NoConfig == [k \in {} |-> NoneV]

BaseNode ==
    [cls |-> "ModelNode", resource_type |-> s_model,
     name |-> s_orders, package_name |-> s_pkg, source_name |-> None,
     fqn |-> <<s_pkg, s_orders>>, is_versioned |-> FALSE,
     has_version |-> FALSE, version |-> 0, has_latest_version |-> FALSE,
     latest_version |-> 0, is_latest_version |-> FALSE,
     access |-> None, has_tags |-> TRUE, tags |-> <<>>, config |-> NoConfig,
     original_file_path |-> <<"m">>, has_patch_path |-> FALSE, patch_path |-> None,
     has_test_metadata |-> FALSE, test_metadata_name |-> None,
     has_depends_on |-> TRUE, depends_on_macros |-> <<>>,
     same |-> [p \in {} |-> 0], contract_enforced |-> FALSE]

(***************************************************************************)
(* A Manifest: the seven mappings of selectable nodes, each the sequence   *)
(* of its keys in insertion order, with `node` giving the value of a key;  *)
(* `macros` maps a macro id to [macro_sql, depends_on_macros]; `disabled`  *)
(* maps an id to its first disabled shell.  An absent manifest is          *)
(* [present |-> FALSE].                                                    *)
(***************************************************************************)
NoManifest == [present |-> FALSE]

EmptyManifest ==
    [present |-> TRUE, nodes |-> <<>>, sources |-> <<>>, exposures |-> <<>>,
     metrics |-> <<>>, unit_tests |-> <<>>, semantic_models |-> <<>>,
     saved_queries |-> <<>>, node |-> [i \in {} |-> BaseNode],
     macros |-> [i \in {} |-> [macro_sql |-> 0, depends_on_macros |-> <<>>]],
     disabled |-> [i \in {} |-> BaseNode],
     project_name |-> s_pkg, adapter_type |-> "postgres"]

\* the keys of all seven mappings
ManifestIds(m) ==
    Range(m.nodes) \cup Range(m.sources) \cup Range(m.exposures) \cup Range(m.metrics)
        \cup Range(m.unit_tests) \cup Range(m.semantic_models) \cup Range(m.saved_queries)

(***************************************************************************)
(* PreviousState: the previous manifest, the previous run's results, and   *)
(* the previous and current source freshness results.  Each part may be    *)
(* None ([present |-> FALSE]).  A freshness result is [unique_id,          *)
(* has_max_loaded_at, max_loaded_at]; a runtime-error result has no        *)
(* max_loaded_at.                                                          *)
(***************************************************************************)
Absent == [present |-> FALSE]

NoPreviousState == [present |-> FALSE]

VARIABLES
    manifest,        \* the current Manifest
    previous_state,  \* Optional[PreviousState]
    project_paths,   \* the relative paths that exist under the project root
    method,          \* the class of the SelectorMethod instance, "none" before get_method
    arguments,       \* the instance's arguments
    modified_macros, \* StateSelectorMethod.modified_macros: None or a list of macro ids
    phase,           \* "ready": search may be called; "done": a search has run
    included,        \* the last search's included_nodes
    selector,        \* the last search's selector
    yielded,         \* the ids the last search yielded, in order
    error,           \* the exception that ended the last search, "none" if it returned
    removed_checked, \* the ids passed to the checker as (removed, None), in order
    macro_trace      \* the last macro traversal: [ran, result, visited, calls]

vars == <<manifest, previous_state, project_paths, method, arguments, modified_macros,
          phase, included, selector, yielded, error, removed_checked, macro_trace>>

(***************************************************************************)
(* The node iterators of SelectorMethod, lines 124-233: a mapping's keys   *)
(* that are in included_nodes, in the mapping's order.                     *)
(***************************************************************************)
\* the iterator without its `if unique_id not in included_nodes: continue`
parsed_nodes_unfiltered(m, included_nodes) == m.nodes

parsed_nodes(m, included_nodes) == SelectIn(m.nodes, included_nodes)

source_nodes(m, included_nodes) == SelectIn(m.sources, included_nodes)

exposure_nodes(m, included_nodes) == SelectIn(m.exposures, included_nodes)

metric_nodes(m, included_nodes) == SelectIn(m.metrics, included_nodes)

unit_tests(m, included_nodes) == SelectIn(m.unit_tests, included_nodes)

semantic_model_nodes(m, included_nodes) == SelectIn(m.semantic_models, included_nodes)

saved_query_nodes(m, included_nodes) == SelectIn(m.saved_queries, included_nodes)

parsed_and_unit_nodes(m, included_nodes) ==
    parsed_nodes(m, included_nodes) \o unit_tests(m, included_nodes)

\* all_nodes chaining the sources ahead of the parsed nodes
all_nodes_sources_first(m, included_nodes) ==
    source_nodes(m, included_nodes) \o parsed_nodes(m, included_nodes)
        \o exposure_nodes(m, included_nodes) \o metric_nodes(m, included_nodes)
        \o unit_tests(m, included_nodes) \o semantic_model_nodes(m, included_nodes)
        \o saved_query_nodes(m, included_nodes)

all_nodes(m, included_nodes) ==
    parsed_nodes(m, included_nodes) \o source_nodes(m, included_nodes)
        \o exposure_nodes(m, included_nodes) \o metric_nodes(m, included_nodes)
        \o unit_tests(m, included_nodes) \o semantic_model_nodes(m, included_nodes)
        \o saved_query_nodes(m, included_nodes)

configurable_nodes(m, included_nodes) ==
    parsed_nodes(m, included_nodes) \o source_nodes(m, included_nodes)

non_source_nodes(m, included_nodes) ==
    parsed_nodes(m, included_nodes) \o exposure_nodes(m, included_nodes)
        \o metric_nodes(m, included_nodes) \o unit_tests(m, included_nodes)
        \o semantic_model_nodes(m, included_nodes) \o saved_query_nodes(m, included_nodes)

groupable_nodes(m, included_nodes) ==
    parsed_nodes(m, included_nodes) \o metric_nodes(m, included_nodes)

\* the elements of a sequence of ids whose node satisfies Match, in order: the
\* `for unique_id, node in ...: if match(node): yield unique_id` of every search
YieldIf(ids, Match(_)) == SelectIn(ids, {i \in Range(ids) : Match(i)})

\* what a search gives its caller: the ids yielded and the exception raised
Returned(ids) == [yielded |-> ids, error |-> "none"]

Raised(exc) == [yielded |-> <<>>, error |-> exc]

(***************************************************************************)
(* QualifiedNameSelectorMethod, lines 244-270                              *)
(***************************************************************************)
\* node_is_match that tries the whole fqn only, never the fqn without its package
node_is_match_scoped(qualified_name, fqn, is_versioned) ==
    is_selected_node(fqn, qualified_name, is_versioned)

node_is_match(qualified_name, fqn, is_versioned) ==
    \/ is_selected_node(fqn, qualified_name, is_versioned)
    \/ is_selected_node(Tail(fqn), qualified_name, is_versioned)

QualifiedNameSearch(m, included_nodes, sel) ==
    LET Match(id) == node_is_match(sel, m.node[id].fqn, m.node[id].is_versioned)
    IN  Returned(YieldIf(non_source_nodes(m, included_nodes), Match))

(***************************************************************************)
(* TagSelectorMethod, GroupSelectorMethod, AccessSelectorMethod,           *)
(* lines 273-297                                                           *)
(***************************************************************************)
TagSearch(m, included_nodes, sel) ==
    LET Match(id) ==
            /\ m.node[id].has_tags
            /\ \E i \in 1..Len(m.node[id].tags) : fnmatch(m.node[id].tags[i], sel)
    IN  Returned(YieldIf(all_nodes(m, included_nodes), Match))

\* node.config.get("group"): None when the key is missing
ConfigGet(config, key) == IF key \in DOMAIN config THEN config[key] ELSE NoneV

GroupSearch(m, included_nodes, sel) ==
    LET Match(id) ==
            LET node_group == ConfigGet(m.node[id].config, "group")
            IN  /\ node_group.t = "str"
                /\ node_group.v # <<>>
                /\ fnmatch(node_group.v, sel)
    IN  Returned(YieldIf(groupable_nodes(m, included_nodes), Match))

AccessSearch(m, included_nodes, sel) ==
    LET Match(id) == m.node[id].cls = "ModelNode" /\ sel = m.node[id].access
    IN  Returned(YieldIf(parsed_nodes(m, included_nodes), Match))

(***************************************************************************)
(* SourceSelectorMethod, lines 300-327                                     *)
(***************************************************************************)
\* SourceSelectorMethod.search reading two parts as package and source name
SourceSearch_package_first(m, included_nodes, sel) ==
    LET parts == Split(sel, ".")
        target_package == IF Len(parts) >= 2 THEN parts[1] ELSE s_star
        target_source  == IF Len(parts) >= 2 THEN parts[2] ELSE parts[1]
        target_table   == IF Len(parts) = 3 THEN parts[3] ELSE s_star
        Match(id) ==
            /\ fnmatch(m.node[id].package_name, target_package)
            /\ fnmatch(m.node[id].source_name, target_source)
            /\ fnmatch(m.node[id].name, target_table)
    IN  IF Len(parts) > 3 THEN Raised("DbtRuntimeError")
        ELSE Returned(YieldIf(source_nodes(m, included_nodes), Match))

SourceSearch(m, included_nodes, sel) ==
    LET parts == Split(sel, ".")
        target_package == IF Len(parts) = 3 THEN parts[1] ELSE s_star
        target_source  == IF Len(parts) = 3 THEN parts[2] ELSE parts[1]
        target_table   == IF Len(parts) = 3 THEN parts[3]
                          ELSE IF Len(parts) = 2 THEN parts[2] ELSE s_star
        Match(id) ==
            /\ fnmatch(m.node[id].package_name, target_package)
            /\ fnmatch(m.node[id].source_name, target_source)
            /\ fnmatch(m.node[id].name, target_table)
    IN  IF Len(parts) > 3 THEN Raised("DbtRuntimeError")
        ELSE Returned(YieldIf(source_nodes(m, included_nodes), Match))

(***************************************************************************)
(* ExposureSelectorMethod, MetricSelectorMethod,                           *)
(* SemanticModelSelectorMethod, SavedQuerySelectorMethod and               *)
(* UnitTestSelectorMethod, lines 330-452: the same search over one kind    *)
(***************************************************************************)
PackageNameSearch(m, candidates, sel) ==
    LET parts == Split(sel, ".")
        target_package == IF Len(parts) = 2 THEN parts[1] ELSE s_star
        target_name    == IF Len(parts) = 2 THEN parts[2] ELSE parts[1]
        Match(id) ==
            /\ fnmatch(m.node[id].package_name, target_package)
            /\ fnmatch(m.node[id].name, target_name)
    IN  IF Len(parts) > 2 THEN Raised("DbtRuntimeError")
        ELSE Returned(YieldIf(candidates, Match))

ExposureSearch(m, included_nodes, sel) ==
    PackageNameSearch(m, exposure_nodes(m, included_nodes), sel)

MetricSearch(m, included_nodes, sel) ==
    PackageNameSearch(m, metric_nodes(m, included_nodes), sel)

SemanticModelSearch(m, included_nodes, sel) ==
    PackageNameSearch(m, semantic_model_nodes(m, included_nodes), sel)

SavedQuerySearch(m, included_nodes, sel) ==
    PackageNameSearch(m, saved_query_nodes(m, included_nodes), sel)

UnitTestSearch(m, included_nodes, sel) ==
    PackageNameSearch(m, unit_tests(m, included_nodes), sel)

(***************************************************************************)
(* PathSelectorMethod, lines 455-475.  A Path is the sequence of its       *)
(* segments, Path(".") the empty sequence.  root.glob(selector) gives the  *)
(* existing paths whose segments match the selector's segments one by one  *)
(* (`**` is not modelled).                                                 *)
(***************************************************************************)
Path(s) == Split(s, "/")

Glob(existing, sel) ==
    {Path(p) : p \in {q \in existing :
        /\ Len(Path(q)) = Len(Path(sel))
        /\ \A i \in 1..Len(Path(q)) : fnmatch(Path(q)[i], Path(sel)[i])}}

\* Path.parents: every proper prefix, down to Path(".")
Parents(path) == {SubSeq(path, 1, n) : n \in 0..(Len(path) - 1)}

\* the position where "://" first starts in s, 0 if nowhere
SchemeIndex(s) ==
    LET At(i) == i + 2 <= Len(s) /\ SubSeq(s, i, i + 2) = <<":", "/", "/">>
    IN  IF \E i \in 1..Len(s) : At(i)
        THEN CHOOSE i \in 1..Len(s) : At(i) /\ \A j \in 1..(i - 1) : ~At(j)
        ELSE 0

\* patch_path.split("://")[1], for a patch_path that holds "://"
AfterScheme(s) ==
    LET rest == From(s, SchemeIndex(s) + 3)
    IN  IF SchemeIndex(rest) = 0 THEN rest ELSE SubSeq(rest, 1, SchemeIndex(rest) - 1)

\* what the loop body yields for one node: the id once for each `if` that holds
PathYields(m, paths, id) ==
    LET node == m.node[id]
        ofp  == Path(node.original_file_path)
    IN  (IF ofp \in paths THEN <<id>> ELSE <<>>)
        \o (IF /\ node.has_patch_path
               /\ node.patch_path # None
               /\ node.patch_path # <<>>
               /\ Path(AfterScheme(node.patch_path)) \in paths
            THEN <<id>> ELSE <<>>)
        \o (IF \E parent \in Parents(ofp) : parent \in paths THEN <<id>> ELSE <<>>)

PathSearch(m, existing, included_nodes, sel) ==
    LET paths == Glob(existing, sel)
        ids   == all_nodes(m, included_nodes)
    IN  Returned(Flatten([i \in 1..Len(ids) |-> PathYields(m, paths, ids[i])]))

(***************************************************************************)
(* FileSelectorMethod and PackageSelectorMethod, lines 478-497             *)
(***************************************************************************)
\* Path(...).name
PathName(s) == Path(s)[Len(Path(s))]

\* the position of the last "." of s, 0 when absent
LastDot(s) ==
    IF \E i \in 1..Len(s) : s[i] = "."
    THEN CHOOSE i \in 1..Len(s) : s[i] = "." /\ \A j \in (i + 1)..Len(s) : s[j] # "."
    ELSE 0

\* Path(...).stem: the name without its last suffix
PathStem(s) ==
    LET name == PathName(s)
        i    == LastDot(name)
    IN  IF 1 < i /\ i < Len(name) THEN SubSeq(name, 1, i - 1) ELSE name

FileSearch(m, included_nodes, sel) ==
    LET Match(id) ==
            \/ fnmatch(PathName(m.node[id].original_file_path), sel)
            \/ fnmatch(PathStem(m.node[id].original_file_path), sel)
    IN  Returned(YieldIf(all_nodes(m, included_nodes), Match))

PackageSearch(m, included_nodes, sel) ==
    LET pattern == IF sel = s_this /\ m.project_name # None THEN m.project_name ELSE sel
        Match(id) == fnmatch(m.node[id].package_name, pattern)
    IN  Returned(YieldIf(all_nodes(m, included_nodes), Match))

(***************************************************************************)
(* _getattr_descend, CaseInsensitive and ConfigSelectorMethod,             *)
(* lines 500-559.  The selector is a string.                               *)
(***************************************************************************)
\* [ok, value]: ok is FALSE where the code raises AttributeError
RECURSIVE getattr_descend(_, _)
getattr_descend(value, attrs) ==
    IF attrs = <<>> THEN [ok |-> TRUE, value |-> value]
    ELSE IF value.t = "dict" /\ Head(attrs) \in DOMAIN value.v
         THEN getattr_descend(value.v[Head(attrs)], Tail(attrs))
    ELSE [ok |-> FALSE, value |-> NoneV]

\* CaseInsensitive(a) == b for a string b
CaseInsensitiveEq(a, b) == Upper(a) = Upper(b)

\* `selector == value` at lines 547 and 554: the selector is a CaseInsensitive
\* when the arguments are ["severity"], a str otherwise
SelectorEquals(sel, case_insensitive, value) ==
    /\ value.t = "str"
    /\ IF case_insensitive THEN CaseInsensitiveEq(sel, value.v) ELSE sel = value.v

IsTrue(value) == value.t = "bool" /\ value.v = TRUE

IsFalse(value) == value.t = "bool" /\ value.v = FALSE

\* lines 546-550
ConfigListMatch(sel, case_insensitive, value) ==
    \/ \E i \in 1..Len(value.v) : SelectorEquals(sel, case_insensitive, value.v[i])
    \/ (CaseInsensitiveEq(sel, s_true) /\ \E i \in 1..Len(value.v) : IsTrue(value.v[i]))
    \/ (CaseInsensitiveEq(sel, s_false) /\ \E i \in 1..Len(value.v) : IsFalse(value.v[i]))

\* lines 553-558 read as `(... or ... or ...) and value is False`
ConfigValueMatch_grouped(sel, case_insensitive, value) ==
    /\ \/ SelectorEquals(sel, case_insensitive, value)
       \/ (CaseInsensitiveEq(sel, s_true) /\ IsTrue(value))
       \/ CaseInsensitiveEq(sel, s_false)
    /\ IsFalse(value)

\* lines 553-558: `and` binds tighter than `or`
ConfigValueMatch(sel, case_insensitive, value) ==
    \/ SelectorEquals(sel, case_insensitive, value)
    \/ (CaseInsensitiveEq(sel, s_true) /\ IsTrue(value))
    \/ ((CaseInsensitiveEq(sel, s_false)) /\ IsFalse(value))

ConfigSearch(m, parts, included_nodes, sel) ==
    LET case_insensitive == parts = <<"severity">>
        Match(id) ==
            LET got == getattr_descend(DictV(m.node[id].config), parts)
            IN  /\ got.ok
                /\ IF got.value.t = "list"
                   THEN ConfigListMatch(sel, case_insensitive, got.value)
                   ELSE ConfigValueMatch(sel, case_insensitive, got.value)
    IN  Returned(YieldIf(configurable_nodes(m, included_nodes), Match))

(***************************************************************************)
(* ResourceTypeSelectorMethod, TestNameSelectorMethod and                  *)
(* TestTypeSelectorMethod, lines 562-607                                   *)
(***************************************************************************)
ResourceTypeSearch(m, included_nodes, sel) ==
    LET Match(id) == m.node[id].resource_type = sel
    IN  IF sel \notin NodeType THEN Raised("DbtRuntimeError")
        ELSE Returned(YieldIf(all_nodes(m, included_nodes), Match))

TestNameSearch(m, included_nodes, sel) ==
    LET Match(id) ==
            LET node == m.node[id]
            IN  IF node.resource_type = s_test /\ node.has_test_metadata
                THEN fnmatch(node.test_metadata_name, sel)
                ELSE /\ node.resource_type = s_unit_test
                     /\ fnmatch(node.name, sel)
    IN  Returned(YieldIf(parsed_and_unit_nodes(m, included_nodes), Match))

\* lines 592-603: ("generic", "schema") is a tuple, ("data"), ("singular") and
\* ("unit") are strings, so `in` is substring containment for them.  The empty
\* set stands for the else branch.
search_types(sel) ==
    IF sel \in {s_generic, s_schema} THEN {"GenericTestNode"}
    ELSE IF IsSubstring(sel, s_data) THEN {"GenericTestNode", "SingularTestNode"}
    ELSE IF IsSubstring(sel, s_singular) THEN {"SingularTestNode"}
    ELSE IF IsSubstring(sel, s_unit) THEN {"UnitTestDefinition"}
    ELSE {}

TestTypeSearch(m, included_nodes, sel) ==
    LET Match(id) == m.node[id].cls \in search_types(sel)
    IN  IF search_types(sel) = {} THEN Raised("DbtRuntimeError")
        ELSE Returned(YieldIf(parsed_and_unit_nodes(m, included_nodes), Match))

(***************************************************************************)
(* ResultSelectorMethod and SourceStatusSelectorMethod, lines 822-885      *)
(***************************************************************************)
\* a search that takes missing run results for an empty list of results
ResultSearch_lenient(m, prev, included_nodes, sel) ==
    IF ~prev.present \/ ~prev.results.present THEN Returned(<<>>)
    ELSE LET matches == {r.unique_id : r \in {x \in prev.results.results : x.status = sel}}
             Match(id) == id \in matches
         IN  Returned(YieldIf(all_nodes(m, included_nodes), Match))

ResultSearch(m, prev, included_nodes, sel) ==
    IF ~prev.present \/ ~prev.results.present THEN Raised("DbtInternalError")
    ELSE LET matches == {r.unique_id : r \in {x \in prev.results.results : x.status = sel}}
             Match(id) == id \in matches
         IN  Returned(YieldIf(all_nodes(m, included_nodes), Match))

\* lines 844-848 and 856-860: unique_id -> max_loaded_at of the results that have one
WithMaxLoadedAt(results) ==
    [id \in {r.unique_id : r \in {x \in results : x.has_max_loaded_at}} |->
        (CHOOSE r \in results : r.unique_id = id /\ r.has_max_loaded_at).max_loaded_at]

\* lines 850-854 and 862-866: the ids of the results that have no max_loaded_at
RuntimeErrorIds(results) == {r.unique_id : r \in {x \in results : ~x.has_max_loaded_at}}

\* line 862: computed from sources_current, as line 850 is
previous_state_sources_runtime_error(prev) == RuntimeErrorIds(prev.sources_current.results)

\* "fresher" as "not older": `>=` where line 873 has `>`
not_older_matches(current_state_sources, previous_state_sources) ==
    {id \in DOMAIN current_state_sources :
        \/ id \notin DOMAIN previous_state_sources
        \/ current_state_sources[id] >= previous_state_sources[id]}

\* lines 870-874: the ids added to matches for "fresher"
fresher_matches(current_state_sources, previous_state_sources) ==
    {id \in DOMAIN current_state_sources :
        \/ id \notin DOMAIN previous_state_sources
        \/ current_state_sources[id] > previous_state_sources[id]}

SourceStatusSearch(m, prev, included_nodes, sel) ==
    IF ~prev.present \/ ~prev.sources.present THEN Raised("DbtInternalError")
    ELSE IF ~prev.sources_current.present THEN Raised("DbtInternalError")
    ELSE LET current_state_sources  == WithMaxLoadedAt(prev.sources_current.results)
             current_error          == RuntimeErrorIds(prev.sources_current.results)
             previous_state_sources == WithMaxLoadedAt(prev.sources.results)
             previous_error         == previous_state_sources_runtime_error(prev)
             matches == IF sel = s_fresher
                        THEN fresher_matches(current_state_sources, previous_state_sources)
                        ELSE {}
             \* lines 876-881 remove from the set they iterate over: the first
             \* removal makes the iterator raise RuntimeError
             removes == \E id \in matches : id \in previous_error \/ id \in current_error
             Match(id) == id \in matches
         IN  IF removes THEN Raised("RuntimeError")
             ELSE Returned(YieldIf(all_nodes(m, included_nodes), Match))

(***************************************************************************)
(* VersionSelectorMethod, lines 888-917.  A version is a number;           *)
(* `node.version and node.latest_version` is false for None and for 0.     *)
(***************************************************************************)
VersionMatch(node, sel) ==
    LET both == /\ node.has_version /\ node.version # 0
                /\ node.has_latest_version /\ node.latest_version # 0
    IN  IF sel = s_latest THEN node.is_latest_version
        ELSE IF sel = s_prerelease THEN both /\ node.version > node.latest_version
        ELSE IF sel = s_old THEN both /\ node.version < node.latest_version
        ELSE sel = s_none /\ ~node.has_version

\* the else branch of line 914 is reached only inside the loop, at a ModelNode
VersionSearch(m, included_nodes, sel) ==
    LET models == YieldIf(parsed_nodes(m, included_nodes),
                          LAMBDA id : m.node[id].cls = "ModelNode")
        Match(id) == VersionMatch(m.node[id], sel)
    IN  IF sel \notin {s_latest, s_prerelease, s_old, s_none} /\ models # <<>>
        THEN Raised("DbtRuntimeError")
        ELSE Returned(YieldIf(models, Match))

(***************************************************************************)
(* StateSelectorMethod: the macro checks, lines 610-677                    *)
(***************************************************************************)
\* the order in which the model lists macro ids (a dict's insertion order)
MacroOrder == <<"macro.a", "macro.b", "macro.c", "macro.r">>

\* _macros_modified without its second loop, lines 631-633
macros_modified_current(m, prev) ==
    LET old_macros == prev.manifest.macros
        new_macros == m.macros
        changed == {uid \in DOMAIN new_macros :
                       \/ uid \notin DOMAIN old_macros
                       \/ new_macros[uid].macro_sql # old_macros[uid].macro_sql}
    IN  SelectIn(MacroOrder, changed)

\* _macros_modified, lines 615-635: changed or added macros, then removed ones
macros_modified(m, prev) ==
    LET old_macros == prev.manifest.macros
        new_macros == m.macros
        changed == {uid \in DOMAIN new_macros :
                       \/ uid \notin DOMAIN old_macros
                       \/ new_macros[uid].macro_sql # old_macros[uid].macro_sql}
        removed == {uid \in DOMAIN old_macros : uid \notin DOMAIN new_macros}
    IN  SelectIn(MacroOrder, changed) \o SelectIn(MacroOrder, removed)

\* The frames Python allows the recursion before it raises RecursionError.
RecursionLimit == 8

\* the loop of recursively_check_macros_modified without lines 642-643, the
\* test that skips a macro already in visited_macros
RECURSIVE check_macros_loop_revisiting(_, _, _, _, _, _, _)
check_macros_loop_revisiting(m, modified, deps, i, visited_macros, calls, depth) ==
    IF i > Len(deps)
    THEN [result |-> FALSE, visited |-> visited_macros, calls |-> calls, overflow |-> FALSE]
    ELSE LET macro_uid == deps[i]
             visited   == Append(visited_macros, macro_uid)
         IN  IF macro_uid \in Range(modified)
             THEN [result |-> TRUE, visited |-> visited, calls |-> calls,
                   overflow |-> FALSE]
             ELSE IF Len(m.macros[macro_uid].depends_on_macros) > 0
             THEN IF depth >= RecursionLimit
                  THEN [result |-> FALSE, visited |-> visited, calls |-> calls,
                        overflow |-> TRUE]
                  ELSE LET up == check_macros_loop_revisiting(m, modified,
                                     m.macros[macro_uid].depends_on_macros, 1, visited,
                                     Append(calls, macro_uid), depth + 1)
                       IN  IF up.result \/ up.overflow THEN up
                           ELSE check_macros_loop_revisiting(m, modified, deps, i + 1,
                                                             up.visited, up.calls, depth)
             ELSE check_macros_loop_revisiting(m, modified, deps, i + 1, visited, calls,
                                               depth)

\* recursively_check_macros_modified, lines 637-665, as the loop over
\* depends_on_macros from position i on.  visited_macros is the list the calls
\* share; calls lists the macros a recursive call was made for, in call order;
\* depth is the number of frames in use.
\* Gives [result, visited, calls, overflow].
RECURSIVE check_macros_loop(_, _, _, _, _, _, _)
check_macros_loop(m, modified, deps, i, visited_macros, calls, depth) ==
    IF i > Len(deps)
    THEN [result |-> FALSE, visited |-> visited_macros, calls |-> calls, overflow |-> FALSE]
    ELSE LET macro_uid == deps[i]
             visited   == Append(visited_macros, macro_uid)
         IN  IF macro_uid \in Range(visited_macros)
             THEN check_macros_loop(m, modified, deps, i + 1, visited_macros, calls, depth)
             ELSE IF macro_uid \in Range(modified)
             THEN [result |-> TRUE, visited |-> visited, calls |-> calls,
                   overflow |-> FALSE]
             ELSE IF Len(m.macros[macro_uid].depends_on_macros) > 0
             THEN IF depth >= RecursionLimit
                  THEN [result |-> FALSE, visited |-> visited, calls |-> calls,
                        overflow |-> TRUE]
                  ELSE LET up == check_macros_loop(m, modified,
                                     m.macros[macro_uid].depends_on_macros, 1, visited,
                                     Append(calls, macro_uid), depth + 1)
                       IN  IF up.result \/ up.overflow THEN up
                           ELSE check_macros_loop(m, modified, deps, i + 1, up.visited,
                                                  up.calls, depth)
             ELSE check_macros_loop(m, modified, deps, i + 1, visited, calls, depth)

NoNode == [present |-> FALSE]

Some(node) == [present |-> TRUE, node |-> node]

\* a check that looks at the node's own macros only and never goes upstream
directly_check_macros_modified(m, modified, new) ==
    [result |-> /\ new.present
                /\ new.node.has_depends_on
                /\ Range(new.node.depends_on_macros) \cap Range(modified) # {},
     visited |-> <<>>, calls |-> <<>>, overflow |-> FALSE]

\* recursively_check_macros_modified(node, []): node is Optional, and a node
\* without depends_on (or None) is not affected
recursively_check_macros_modified(m, modified, new) ==
    IF ~new.present \/ ~new.node.has_depends_on
    THEN [result |-> FALSE, visited |-> <<>>, calls |-> <<>>, overflow |-> FALSE]
    ELSE check_macros_loop(m, modified, new.node.depends_on_macros, 1, <<>>, <<>>, 1)

\* self.modified_macros after check_macros_modified, lines 669-670: computed
\* the first time only
memoized_macros(m, prev, memo) == IF memo = None THEN macros_modified(m, prev) ELSE memo

\* check_macros_modified with the emptiness test of line 672 ahead of the
\* computation of lines 669-670: the first call sees an unset modified_macros
check_macros_modified_unset_first(m, prev, memo, new) ==
    IF memo = None \/ memo = <<>>
    THEN [result |-> FALSE, visited |-> <<>>, calls |-> <<>>, overflow |-> FALSE]
    ELSE recursively_check_macros_modified(m, memo, new)

\* check_macros_modified, lines 667-677, given self.modified_macros
check_macros_modified(m, prev, memo, new) ==
    LET modified == memoized_macros(m, prev, memo)
    IN  IF modified = <<>>
        THEN [result |-> FALSE, visited |-> <<>>, calls |-> <<>>, overflow |-> FALSE]
        ELSE recursively_check_macros_modified(m, modified, new)

(***************************************************************************)
(* The structural-equality predicates of the node classes                  *)
(* (dbt.contracts.graph.nodes, not part of this file): each compares one   *)
(* part of the two nodes; same_contents compares every part and is false   *)
(* for a missing old node.                                                 *)
(***************************************************************************)
same_part(new, old, compare_method) ==
    /\ compare_method \in DOMAIN old.same
    /\ new.same[compare_method] = old.same[compare_method]

same_contents(new, old) ==
    /\ old.present
    /\ \A p \in DOMAIN new.same : same_part(new, old.node, p)

\* ModelNode.same_contract_removed; no other class has it
same_contract_removed(old) == ~old.contract_enforced

(***************************************************************************)
(* StateSelectorMethod: the checkers, lines 680-739.  old and new are      *)
(* Optional nodes.                                                         *)
(***************************************************************************)
\* check_modified_contract(compare_method, adapter_type)(old, new)
check_modified_contract(compare_method, old, new) ==
    IF ~new.present /\ old.present /\ old.node.cls = "ModelNode"
    THEN same_contract_removed(old.node)
    ELSE IF new.present /\ compare_method \in DOMAIN new.node.same
    THEN ~old.present \/ ~same_part(new.node, old.node, compare_method)
    ELSE FALSE

check_modified_content(m, prev, memo, old, new) ==
    LET different_contents == new.present /\ ~same_contents(new.node, old)
        upstream_macro_change == check_macros_modified(m, prev, memo, new).result
        modified_contract ==
            /\ old.present
            /\ old.node.cls = "ModelNode"
            /\ check_modified_contract("same_contract", old, new)
    IN  different_contents \/ upstream_macro_change \/ modified_contract

\* "unmodified" as "the contents are the same", which forgets the upstream
\* macros and the contract
check_same_content(m, prev, memo, old, new) ==
    new.present /\ same_contents(new.node, old)

check_unmodified_content(m, prev, memo, old, new) ==
    ~check_modified_content(m, prev, memo, old, new)

check_modified_macros(m, prev, memo, old, new) ==
    check_macros_modified(m, prev, memo, new).result

\* check_modified_things without the hasattr test of line 717
check_modified_things_unguarded(compare_method, old, new) ==
    ~old.present \/ ~same_part(new.node, old.node, compare_method)

\* check_modified_factory(compare_method)(old, new)
check_modified_things(compare_method, old, new) ==
    IF compare_method \in DOMAIN new.node.same
    THEN ~old.present \/ ~same_part(new.node, old.node, compare_method)
    ELSE FALSE

(***************************************************************************)
(* StateSelectorMethod.search, lines 741-819                               *)
(***************************************************************************)
s_body == <<"b", "o", "d", "y">>
s_configs == <<"c", "o", "n", "f", "i", "g", "s">>
s_persisted_descriptions == <<"p", "e", "r", "s", "i", "s", "t", "e", "d", "_", "d", "e", "s", "c", "r", "i", "p", "t", "i", "o", "n", "s">>
s_relation == <<"r", "e", "l", "a", "t", "i", "o", "n">>
s_macros == <<"m", "a", "c", "r", "o", "s">>
s_contract == <<"c", "o", "n", "t", "r", "a", "c", "t">>

\* the keys of state_checks, lines 747-762
state_checks ==
    {s_new, s_old, s_modified, s_unmodified, Dot(s_modified, s_body),
     Dot(s_modified, s_configs), Dot(s_modified, s_persisted_descriptions),
     Dot(s_modified, s_relation), Dot(s_modified, s_macros), Dot(s_modified, s_contract)}

\* state_checks[selector](old, new), on an instance whose modified_macros is memo
checker(m, prev, memo, sel, old, new) ==
    IF sel = s_new THEN ~old.present
    ELSE IF sel = s_old THEN old.present
    ELSE IF sel = s_modified THEN check_modified_content(m, prev, memo, old, new)
    ELSE IF sel = s_unmodified THEN check_unmodified_content(m, prev, memo, old, new)
    ELSE IF sel = Dot(s_modified, s_body) THEN check_modified_things("same_body", old, new)
    ELSE IF sel = Dot(s_modified, s_configs)
         THEN check_modified_things("same_config", old, new)
    ELSE IF sel = Dot(s_modified, s_persisted_descriptions)
         THEN check_modified_things("same_persisted_description", old, new)
    ELSE IF sel = Dot(s_modified, s_relation)
         THEN check_modified_things("same_database_representation", old, new)
    ELSE IF sel = Dot(s_modified, s_macros)
         THEN check_modified_macros(m, prev, memo, old, new)
    ELSE check_modified_contract("same_contract", old, new)

\* lines 774-789: the previous node of a unique_id.  from_resource builds the
\* node class from the stored resource, field by field.
previous_node(old_manifest, unique_id) ==
    IF unique_id \in ManifestIds(old_manifest)
    THEN Some(old_manifest.node[unique_id])
    ELSE NoNode

\* lines 808-814: the previous nodes that count as removed, in the previous
\* manifest's order, each with the node handed to the checker
is_removed(m, previous_unique_id) ==
    \/ previous_unique_id \in DOMAIN m.disabled
    \/ previous_unique_id \notin Range(m.nodes)

removed_node(m, old_manifest, previous_unique_id) ==
    IF previous_unique_id \in DOMAIN m.disabled
    THEN m.disabled[previous_unique_id]
    ELSE old_manifest.node[previous_unique_id]

\* the checkers whose __name__ is listed at lines 802-806
handles_removed(sel) == sel \in {s_modified, s_unmodified, Dot(s_modified, s_contract)}

\* the checkers that take adapter_type, which line 796 sets inside the first loop
needs_adapter_type(sel) == sel \in {s_modified, s_unmodified}

\* the checkers that call check_macros_modified
calls_macro_check(sel) == sel \in {s_modified, s_unmodified, Dot(s_modified, s_macros)}

\* the removed-node loop with a `yield` in it: what line 819 would give if it
\* yielded the removed ids the checker accepts
removed_pass_yielding(m, prev, memo, sel, removed) ==
    YieldIf(removed,
            LAMBDA id : checker(m, prev, memo, sel,
                                Some(removed_node(m, prev.manifest, id)), NoNode))

\* lines 816-819: the checker is called on (removed_node, None) and its answer
\* dropped; the loop yields nothing
removed_pass(m, prev, memo, sel, removed) == <<>>

\* [yielded, error, modified_macros, removed_checked].  Every check of one search
\* sees the same modified_macros: the first sets it, the manifests do not change.
StateSearch(m, prev, memo, included_nodes, sel) ==
    IF ~prev.present \/ ~prev.manifest.present
    THEN [yielded |-> <<>>, error |-> "DbtRuntimeError", modified_macros |-> memo,
          removed_checked |-> <<>>]
    ELSE IF sel \notin state_checks
    THEN [yielded |-> <<>>, error |-> "DbtRuntimeError", modified_macros |-> memo,
          removed_checked |-> <<>>]
    ELSE LET old_manifest == prev.manifest
             ids == all_nodes(m, included_nodes)
             Match(id) == checker(m, prev, memo, sel, previous_node(old_manifest, id),
                                  Some(m.node[id]))
             removed == IF handles_removed(sel)
                        THEN YieldIf(old_manifest.nodes, LAMBDA id : is_removed(m, id))
                        ELSE <<>>
             \* keyword_args is still {} when the first loop ran no iteration
             type_error == needs_adapter_type(sel) /\ ids = <<>> /\ removed # <<>>
         IN  [yielded |-> IF type_error THEN <<>>
                          ELSE YieldIf(ids, Match) \o removed_pass(m, prev, memo, sel, removed),
              error |-> IF type_error THEN "TypeError" ELSE "none",
              modified_macros |-> IF calls_macro_check(sel) /\ ids # <<>>
                                  THEN memoized_macros(m, prev, memo) ELSE memo,
              removed_checked |-> IF type_error THEN <<>> ELSE removed]

(***************************************************************************)
(* MethodManager, lines 920-961                                            *)
(***************************************************************************)
SELECTOR_METHODS ==
    [name \in MethodName |->
        CASE name = "fqn" -> "QualifiedNameSelectorMethod"
          [] name = "tag" -> "TagSelectorMethod"
          [] name = "group" -> "GroupSelectorMethod"
          [] name = "access" -> "AccessSelectorMethod"
          [] name = "source" -> "SourceSelectorMethod"
          [] name = "path" -> "PathSelectorMethod"
          [] name = "file" -> "FileSelectorMethod"
          [] name = "package" -> "PackageSelectorMethod"
          [] name = "config" -> "ConfigSelectorMethod"
          [] name = "test_name" -> "TestNameSelectorMethod"
          [] name = "test_type" -> "TestTypeSelectorMethod"
          [] name = "resource_type" -> "ResourceTypeSelectorMethod"
          [] name = "state" -> "StateSelectorMethod"
          [] name = "exposure" -> "ExposureSelectorMethod"
          [] name = "metric" -> "MetricSelectorMethod"
          [] name = "result" -> "ResultSelectorMethod"
          [] name = "source_status" -> "SourceStatusSelectorMethod"
          [] name = "version" -> "VersionSelectorMethod"
          [] name = "semantic_model" -> "SemanticModelSelectorMethod"
          [] name = "saved_query" -> "SavedQuerySelectorMethod"
          [] name = "unit_test" -> "UnitTestSelectorMethod"]

NoTrace == [ran |-> FALSE]

\* the state of a SelectorMethod instance on which no search is in progress
Idle ==
    /\ included' = {}
    /\ selector' = <<>>
    /\ yielded' = <<>>
    /\ error' = "none"
    /\ removed_checked' = <<>>
    /\ macro_trace' = NoTrace

\* get_method(method, method_arguments): a new instance of the method's class;
\* StateSelectorMethod.__init__ sets modified_macros to None
get_method(names, argument_lists) ==
    /\ phase \in {"none", "ready"}
    /\ \E name \in names, args \in argument_lists :
        /\ name \in DOMAIN SELECTOR_METHODS
        /\ method' = SELECTOR_METHODS[name]
        /\ arguments' = args
    /\ modified_macros' = None
    /\ phase' = "ready"
    /\ Idle
    /\ UNCHANGED <<manifest, previous_state, project_paths>>

\* the caller has consumed the sequence (or caught the exception) of the last
\* search; the instance may be searched again
Consume ==
    /\ phase = "done"
    /\ phase' = "ready"
    /\ Idle
    /\ UNCHANGED <<manifest, previous_state, project_paths, method, arguments,
                   modified_macros>>

(***************************************************************************)
(* The inputs of a search                                                  *)
(***************************************************************************)
\* The most ids an included set holds, the set of every known id apart.
MaxIncluded == 2

\* an id that is a key of no manifest
UnknownId == "model.pkg.unknown"

\* the ids a caller may pass: those of both manifests and one unknown id
KnownIds ==
    ManifestIds(manifest) \cup {UnknownId}
        \cup (IF previous_state.present /\ previous_state.manifest.present
              THEN ManifestIds(previous_state.manifest) ELSE {})

IncludedSets == {S \in SUBSET KnownIds : Cardinality(S) <= MaxIncluded} \cup {KnownIds}

\* an instance of class cls is ready to be searched
Ready(cls) == phase = "ready" /\ method = cls

\* search(included_nodes, selector) on the instance: res is what the class's
\* search gives for the call
Search(included_nodes, sel, res) ==
    /\ included' = included_nodes
    /\ selector' = sel
    /\ yielded' = res.yielded
    /\ error' = res.error
    /\ phase' = "done"
    /\ UNCHANGED <<manifest, previous_state, project_paths, method, arguments>>

\* a search of a class other than StateSelectorMethod touches no instance state
Stateless == UNCHANGED <<modified_macros, removed_checked, macro_trace>>

\* The most dot-separated parts of a selector built from FqnWords.
MaxSelectorParts == 3

FqnWords == {s_pkg, s_orders, s_v2}

\* the sequences of 1 to n elements of S
SeqsUpTo(S, n) == UNION {[1..k -> S] : k \in 1..n}

\* a name, the two spellings of a version, a pattern, and every dotted selector
\* of at most MaxSelectorParts words
FqnSelectors ==
    {s_orders, s_orders_v2, s_orders_dot_v2, s_pkg_star, Dot(s_pkg, s_orders), s_v2}
        \cup {Join(parts, ".") : parts \in SeqsUpTo(FqnWords, MaxSelectorParts)}

search_fqn ==
    /\ Ready("QualifiedNameSelectorMethod")
    /\ \E inc \in IncludedSets, sel \in FqnSelectors :
           /\ Search(inc, sel,
                     QualifiedNameSearch(manifest, inc, sel))
           /\ Stateless

search_tag ==
    /\ Ready("TagSelectorMethod")
    /\ \E inc \in IncludedSets, sel \in {s_nightly, s_night_star, s_bogus} :
           /\ Search(inc, sel, TagSearch(manifest, inc, sel))
           /\ Stateless

search_group ==
    /\ Ready("GroupSelectorMethod")
    /\ \E inc \in IncludedSets, sel \in {s_finance, s_star, s_bogus} :
           /\ Search(inc, sel, GroupSearch(manifest, inc, sel))
           /\ Stateless

search_access ==
    /\ Ready("AccessSelectorMethod")
    /\ \E inc \in IncludedSets, sel \in {s_public, s_protected} :
           /\ Search(inc, sel, AccessSearch(manifest, inc, sel))
           /\ Stateless

SourceSelectors ==
    {s_stripe, Dot(s_stripe, s_charges), Dot(s_pkg, Dot(s_stripe, s_charges)),
     Dot(s_pkg, Dot(s_pkg, Dot(s_stripe, s_charges))), s_star,
     s_charges, Dot(s_pkg, s_stripe), Dot(s_stripe, s_star),
     Dot(s_other, Dot(s_stripe, s_charges))}

search_source ==
    /\ Ready("SourceSelectorMethod")
    /\ \E inc \in IncludedSets, sel \in SourceSelectors :
           /\ Search(inc, sel, SourceSearch(manifest, inc, sel))
           /\ Stateless

\* name, package.name, and a selector of three parts
NameSelectors(name) ==
    {name, Dot(s_pkg, name), Dot(s_other, name), Dot(s_pkg, Dot(s_pkg, name)),
     s_pkg, Dot(name, s_pkg)}

search_exposure ==
    /\ Ready("ExposureSelectorMethod")
    /\ \E inc \in IncludedSets, sel \in NameSelectors(s_dash) :
           /\ Search(inc, sel, ExposureSearch(manifest, inc, sel))
           /\ Stateless

search_metric ==
    /\ Ready("MetricSelectorMethod")
    /\ \E inc \in IncludedSets, sel \in NameSelectors(s_revenue) :
           /\ Search(inc, sel, MetricSearch(manifest, inc, sel))
           /\ Stateless

search_semantic_model ==
    /\ Ready("SemanticModelSelectorMethod")
    /\ \E inc \in IncludedSets, sel \in NameSelectors(s_sem) :
           /\ Search(inc, sel,
                     SemanticModelSearch(manifest, inc, sel))
           /\ Stateless

search_saved_query ==
    /\ Ready("SavedQuerySelectorMethod")
    /\ \E inc \in IncludedSets, sel \in NameSelectors(s_query) :
           /\ Search(inc, sel, SavedQuerySearch(manifest, inc, sel))
           /\ Stateless

search_unit_test ==
    /\ Ready("UnitTestSelectorMethod")
    /\ \E inc \in IncludedSets, sel \in NameSelectors(s_ut) :
           /\ Search(inc, sel, UnitTestSearch(manifest, inc, sel))
           /\ Stateless

s_models == <<"m", "o", "d", "e", "l", "s">>
s_orders_sql == <<"o", "r", "d", "e", "r", "s", ".", "s", "q", "l">>
s_schema_yml == <<"s", "c", "h", "e", "m", "a", ".", "y", "m", "l">>
s_star_sql == <<"*", ".", "s", "q", "l">>

search_path ==
    /\ Ready("PathSelectorMethod")
    /\ \E inc \in IncludedSets, sel \in {s_models, Slash(s_models, s_star),
                                         Slash(s_models, s_orders_sql)} :
           /\ Search(inc, sel,
                     PathSearch(manifest, project_paths, inc, sel))
           /\ Stateless

search_file ==
    /\ Ready("FileSelectorMethod")
    /\ \E inc \in IncludedSets, sel \in {s_orders_sql, s_orders, s_star_sql} :
           /\ Search(inc, sel, FileSearch(manifest, inc, sel))
           /\ Stateless

search_package ==
    /\ Ready("PackageSelectorMethod")
    /\ \E inc \in IncludedSets, sel \in {s_this, s_pkg, s_other} :
           /\ Search(inc, sel, PackageSearch(manifest, inc, sel))
           /\ Stateless

ConfigSelectors == {s_true, s_True, s_false, s_FALSE, s_warn, s_WARN, s_view}

search_config ==
    /\ Ready("ConfigSelectorMethod")
    /\ \E inc \in IncludedSets, sel \in ConfigSelectors :
           /\ Search(inc, sel,
                     ConfigSearch(manifest, arguments, inc, sel))
           /\ Stateless

search_resource_type ==
    /\ Ready("ResourceTypeSelectorMethod")
    /\ \E inc \in IncludedSets, sel \in {s_model, s_test, s_source, s_bogus} :
           /\ Search(inc, sel,
                     ResourceTypeSearch(manifest, inc, sel))
           /\ Stateless

search_test_name ==
    /\ Ready("TestNameSelectorMethod")
    /\ \E inc \in IncludedSets, sel \in {s_not_null, s_ut, s_star} :
           /\ Search(inc, sel, TestNameSearch(manifest, inc, sel))
           /\ Stateless

\* The longest proper substring of a keyword tried as a test_type selector.
MaxPartLen == 2

Substrings(k) == {SubSeq(k, i, j) : i \in 1..(Len(k) + 1), j \in 0..Len(k)}

\* the five keywords, the substrings of "data", "singular" and "unit" of at most
\* MaxPartLen characters, and two strings that are no substring of a keyword
TestTypeSelectors ==
    {s_generic, s_schema, s_data, s_singular, s_unit, s_bogus, <<"d", "t">>}
        \cup {s \in Substrings(s_data) \cup Substrings(s_singular) \cup Substrings(s_unit) :
                Len(s) <= MaxPartLen}

search_test_type ==
    /\ Ready("TestTypeSelectorMethod")
    /\ \E inc \in IncludedSets, sel \in TestTypeSelectors :
           /\ Search(inc, sel, TestTypeSearch(manifest, inc, sel))
           /\ Stateless

search_version ==
    /\ Ready("VersionSelectorMethod")
    /\ \E inc \in IncludedSets, sel \in {s_latest, s_prerelease, s_old, s_none, s_bogus} :
           /\ Search(inc, sel, VersionSearch(manifest, inc, sel))
           /\ Stateless

search_result ==
    /\ Ready("ResultSelectorMethod")
    /\ \E inc \in IncludedSets, sel \in {s_success, s_error} :
           /\ Search(inc, sel,
                     ResultSearch(manifest, previous_state, inc, sel))
           /\ Stateless

search_source_status ==
    /\ Ready("SourceStatusSelectorMethod")
    /\ \E inc \in IncludedSets, sel \in {s_fresher, s_bogus} :
           /\ Search(inc, sel,
                     SourceStatusSearch(manifest, previous_state, inc, sel))
           /\ Stateless

search_state ==
    /\ Ready("StateSelectorMethod")
    /\ \E inc \in IncludedSets, sel \in state_checks \cup {s_bogus} :
           LET res == StateSearch(manifest, previous_state, modified_macros, inc, sel)
           IN  /\ Search(inc, sel, res)
               /\ modified_macros' = res.modified_macros
               /\ removed_checked' = res.removed_checked
               /\ macro_trace' = NoTrace

\* check_macros_modified(node) on a StateSelectorMethod instance, for a node of
\* the current manifest or None (the removed-node pass hands in None).  It sets
\* self.modified_macros the first time; macro_trace records the call.
check_macros ==
    /\ Ready("StateSelectorMethod")
    /\ previous_state.present /\ previous_state.manifest.present
    /\ \E new \in {NoNode} \cup {Some(manifest.node[id]) : id \in ManifestIds(manifest)} :
           LET res == check_macros_modified(manifest, previous_state, modified_macros, new)
           IN  macro_trace' = [ran |-> TRUE, node |-> new, result |-> res.result,
                               visited |-> res.visited, calls |-> res.calls,
                               overflow |-> res.overflow]
    /\ modified_macros' = memoized_macros(manifest, previous_state, modified_macros)
    /\ phase' = "done"
    /\ UNCHANGED <<manifest, previous_state, project_paths, method, arguments, included,
                   selector, yielded, error, removed_checked>>

(***************************************************************************)
(* A sample project: one node of every class the methods tell apart        *)
(***************************************************************************)
s_tests == <<"t", "e", "s", "t", "s">>
s_check_sql == <<"c", "h", "e", "c", "k", ".", "s", "q", "l">>
s_sources_yml == <<"s", "o", "u", "r", "c", "e", "s", ".", "y", "m", "l">>
s_pkg_scheme == <<"p", "k", "g", ":", "/", "/">>
s_gone == <<"g", "o", "n", "e">>
s_gone_sql == <<"g", "o", "n", "e", ".", "s", "q", "l">>

ParsedParts ==
    [p \in {"same_body", "same_config", "same_persisted_description",
            "same_database_representation", "same_contract"} |-> 1]

SourceParts == [p \in {"same_config", "same_database_representation"} |-> 1]

OtherParts == [p \in {"same_config"} |-> 1]

OrdersModel ==
    [BaseNode EXCEPT
        !.tags = <<s_nightly>>, !.access = s_protected,
        !.config = [k \in {"materialized", "group", "enabled", "meta"} |->
                        CASE k = "materialized" -> StrV(s_view)
                          [] k = "group" -> StrV(s_finance)
                          [] k = "enabled" -> BoolV(TRUE)
                          [] k = "meta" -> DictV([j \in {"nightly"} |-> BoolV(FALSE)])],
        !.original_file_path = Slash(s_models, s_orders_sql),
        !.has_patch_path = TRUE,
        !.patch_path = s_pkg_scheme \o Slash(s_models, s_schema_yml),
        !.depends_on_macros = <<"macro.a">>, !.same = ParsedParts]

OrdersV2Model ==
    [OrdersModel EXCEPT
        !.fqn = <<s_pkg, s_orders, s_v2>>, !.is_versioned = TRUE, !.has_version = TRUE,
        !.version = 2, !.has_latest_version = TRUE, !.latest_version = 1,
        !.access = s_public, !.tags = <<>>, !.depends_on_macros = <<>>,
        !.config = [k \in {"materialized"} |-> StrV(s_view)]]

NotNullTest ==
    [BaseNode EXCEPT
        !.cls = "GenericTestNode", !.resource_type = s_test, !.name = s_not_null,
        !.fqn = <<s_pkg, s_not_null>>, !.has_test_metadata = TRUE,
        !.test_metadata_name = s_not_null,
        !.config = [k \in {"severity", "enabled"} |->
                        IF k = "severity" THEN StrV(s_WARN) ELSE BoolV(TRUE)],
        !.original_file_path = Slash(s_models, s_schema_yml), !.same = ParsedParts]

CheckTest ==
    [BaseNode EXCEPT
        !.cls = "SingularTestNode", !.resource_type = s_test, !.name = s_check,
        !.fqn = <<s_pkg, s_check>>, !.tags = <<s_nightly>>,
        !.config = [k \in {"severity"} |-> StrV(s_error)],
        !.original_file_path = Slash(s_tests, s_check_sql), !.same = ParsedParts]

ChargesSource ==
    [BaseNode EXCEPT
        !.cls = "SourceDefinition", !.resource_type = s_source, !.name = s_charges,
        !.source_name = s_stripe, !.fqn = <<s_pkg, s_stripe, s_charges>>,
        !.config = [k \in {"enabled"} |-> BoolV(TRUE)],
        !.original_file_path = Slash(s_models, s_sources_yml), !.has_patch_path = TRUE,
        !.has_depends_on = FALSE, !.same = SourceParts]

OtherKind(cls, resource_type, name, package_name) ==
    [BaseNode EXCEPT
        !.cls = cls, !.resource_type = resource_type, !.name = name,
        !.package_name = package_name, !.fqn = <<package_name, name>>,
        !.original_file_path = Slash(s_models, s_schema_yml), !.same = OtherParts]

SampleNodes ==
    [id \in {"model.pkg.orders", "model.pkg.orders.v2", "test.pkg.not_null",
             "test.pkg.check", "source.pkg.stripe.charges", "exposure.pkg.dash",
             "metric.other.revenue", "unit_test.pkg.ut", "semantic_model.pkg.sem",
             "saved_query.pkg.query"} |->
        CASE id = "model.pkg.orders" -> OrdersModel
          [] id = "model.pkg.orders.v2" -> OrdersV2Model
          [] id = "test.pkg.not_null" -> NotNullTest
          [] id = "test.pkg.check" -> CheckTest
          [] id = "source.pkg.stripe.charges" -> ChargesSource
          [] id = "exposure.pkg.dash" -> OtherKind("Exposure", s_exposure, s_dash, s_pkg)
          [] id = "metric.other.revenue" ->
                [OtherKind("Metric", s_metric, s_revenue, s_other) EXCEPT
                    !.config = [k \in {"group"} |-> StrV(s_finance)]]
          [] id = "unit_test.pkg.ut" ->
                OtherKind("UnitTestDefinition", s_unit_test, s_ut, s_pkg)
          [] id = "semantic_model.pkg.sem" ->
                OtherKind("SemanticModel", s_semantic_model, s_sem, s_pkg)
          [] id = "saved_query.pkg.query" ->
                OtherKind("SavedQuery", s_saved_query, s_query, s_pkg)]

Macro(macro_sql, depends_on_macros) ==
    [macro_sql |-> macro_sql, depends_on_macros |-> depends_on_macros]

SampleManifest ==
    [EmptyManifest EXCEPT
        !.nodes = <<"model.pkg.orders", "test.pkg.not_null", "model.pkg.orders.v2",
                    "test.pkg.check">>,
        !.sources = <<"source.pkg.stripe.charges">>,
        !.exposures = <<"exposure.pkg.dash">>,
        !.metrics = <<"metric.other.revenue">>,
        !.unit_tests = <<"unit_test.pkg.ut">>,
        !.semantic_models = <<"semantic_model.pkg.sem">>,
        !.saved_queries = <<"saved_query.pkg.query">>,
        !.node = SampleNodes,
        !.macros = [uid \in {"macro.a", "macro.b"} |->
                        IF uid = "macro.a" THEN Macro(1, <<"macro.b">>) ELSE Macro(1, <<>>)]]

\* the manifest without the keys in gone
Without(m, gone) ==
    [m EXCEPT
        !.nodes = SelectIn(m.nodes, Range(m.nodes) \ gone),
        !.sources = SelectIn(m.sources, Range(m.sources) \ gone),
        !.exposures = SelectIn(m.exposures, Range(m.exposures) \ gone),
        !.metrics = SelectIn(m.metrics, Range(m.metrics) \ gone),
        !.unit_tests = SelectIn(m.unit_tests, Range(m.unit_tests) \ gone),
        !.semantic_models = SelectIn(m.semantic_models, Range(m.semantic_models) \ gone),
        !.saved_queries = SelectIn(m.saved_queries, Range(m.saved_queries) \ gone),
        !.node = [id \in (DOMAIN m.node) \ gone |-> m.node[id]]]

\* the manifest with one more parsed node, appended to `nodes`
WithNode(m, id, node) ==
    [m EXCEPT
        !.nodes = Append(m.nodes, id),
        !.node = [i \in (DOMAIN m.node) \cup {id} |-> IF i = id THEN node ELSE m.node[i]]]

GoneModel ==
    [OrdersModel EXCEPT
        !.name = s_gone, !.fqn = <<s_pkg, s_gone>>,
        !.original_file_path = Slash(s_models, s_gone_sql), !.contract_enforced = TRUE]

\* the previous run of the sample project: orders had another body, macro.b
\* another text, and there was a model that is gone now
SamplePreviousManifest ==
    LET changed == [OrdersModel EXCEPT !.same = [ParsedParts EXCEPT !["same_body"] = 2]]
        m == WithNode(Without(SampleManifest, {"model.pkg.orders.v2", "exposure.pkg.dash"}),
                      "model.pkg.gone", GoneModel)
    IN  [m EXCEPT
            !.node = [id \in DOMAIN m.node |->
                        IF id = "model.pkg.orders" THEN changed ELSE m.node[id]],
            !.macros = [uid \in {"macro.a", "macro.b", "macro.r"} |->
                            IF uid = "macro.b" THEN Macro(2, <<>>) ELSE Macro(1, <<>>)]]

Result(unique_id, status) == [unique_id |-> unique_id, status |-> status]

Fresh(unique_id, max_loaded_at) ==
    [unique_id |-> unique_id, has_max_loaded_at |-> TRUE, max_loaded_at |-> max_loaded_at]

\* a freshness result that is a runtime error: it has no max_loaded_at
FreshnessError(unique_id) ==
    [unique_id |-> unique_id, has_max_loaded_at |-> FALSE, max_loaded_at |-> 0]

Results(rs) == [present |-> TRUE, results |-> rs]

SamplePreviousState ==
    [present |-> TRUE,
     manifest |-> SamplePreviousManifest,
     results |-> Results({Result("model.pkg.orders", s_success),
                          Result("test.pkg.not_null", s_error),
                          Result("model.pkg.gone", s_success)}),
     sources |-> Results({Fresh("source.pkg.stripe.charges", 1)}),
     sources_current |-> Results({Fresh("source.pkg.stripe.charges", 2)})]

SampleProjectPaths ==
    {s_models, s_tests, Slash(s_models, s_orders_sql), Slash(s_models, s_schema_yml),
     Slash(s_models, s_sources_yml), Slash(s_tests, s_check_sql)}

(***************************************************************************)
(* Spec: every selector method on the sample project.  The current         *)
(* manifest is the sample or the sample without some of its keys; the      *)
(* previous state is missing, partial or complete.                         *)
(***************************************************************************)
SampleManifests ==
    {Without(SampleManifest, gone) :
        gone \in {{}, {"model.pkg.orders", "source.pkg.stripe.charges", "unit_test.pkg.ut"}}}

SamplePreviousStates ==
    {NoPreviousState, SamplePreviousState,
     [SamplePreviousState EXCEPT !.manifest = NoManifest, !.results = Absent,
                                 !.sources_current = Absent],
     [SamplePreviousState EXCEPT !.sources = Absent]}

ConfigArguments == {<<"severity">>, <<"enabled">>, <<"materialized">>, <<"meta", "nightly">>}

NoInstance ==
    /\ method = "none"
    /\ arguments = <<>>
    /\ modified_macros = None
    /\ phase = "none"
    /\ included = {}
    /\ selector = <<>>
    /\ yielded = <<>>
    /\ error = "none"
    /\ removed_checked = <<>>
    /\ macro_trace = NoTrace

Init ==
    /\ manifest \in SampleManifests
    /\ previous_state \in SamplePreviousStates
    /\ project_paths = SampleProjectPaths
    /\ NoInstance

Next ==
    \/ get_method(MethodName \ {"config"}, {<<>>})
    \/ get_method({"config"}, ConfigArguments)
    \/ search_fqn
    \/ search_tag
    \/ search_group
    \/ search_access
    \/ search_source
    \/ search_path
    \/ search_file
    \/ search_package
    \/ search_config
    \/ search_test_name
    \/ search_test_type
    \/ search_resource_type
    \/ search_state
    \/ search_exposure
    \/ search_metric
    \/ search_result
    \/ search_source_status
    \/ search_version
    \/ search_semantic_model
    \/ search_saved_query
    \/ search_unit_test
    \/ Consume

Spec == Init /\ [][Next]_vars

(***************************************************************************)
(* SpecState: state searches over two runs of a small project.  The        *)
(* current project has the model orders, perhaps the model gone, and the   *)
(* source charges; any of the two models may also have a disabled shell.   *)
(* The previous run had orders (the same, another body, another contract)  *)
(* or not, charges (the same, another config) or not, gone or not, and     *)
(* macro.a with the same text or another.                                  *)
(***************************************************************************)
StateOrders == [BaseNode EXCEPT !.same = ParsedParts]

StateGone == [StateOrders EXCEPT !.name = s_gone, !.fqn = <<s_pkg, s_gone>>,
                                 !.contract_enforced = TRUE]

StateCharges ==
    [BaseNode EXCEPT
        !.cls = "SourceDefinition", !.resource_type = s_source, !.name = s_charges,
        !.source_name = s_stripe, !.fqn = <<s_pkg, s_stripe, s_charges>>,
        !.has_depends_on = FALSE, !.same = SourceParts]

\* a manifest of the small project: the parsed nodes and sources given as
\* functions from id to node, the models listed orders first
StateManifest(parsed, sources, macros, disabled) ==
    [EmptyManifest EXCEPT
        !.nodes = SelectIn(<<"model.pkg.orders", "model.pkg.gone">>, DOMAIN parsed),
        !.sources = SelectIn(<<"source.pkg.stripe.charges">>, DOMAIN sources),
        !.node = [id \in DOMAIN parsed \cup DOMAIN sources |->
                    IF id \in DOMAIN parsed THEN parsed[id] ELSE sources[id]],
        !.macros = macros,
        !.disabled = disabled]

\* the nodes S of a function from id to node
Only(nodes, S) == [id \in S |-> nodes[id]]

StateCurrentManifests ==
    LET parsed(deps) == [id \in {"model.pkg.orders", "model.pkg.gone"} |->
                            IF id = "model.pkg.orders"
                            THEN [StateOrders EXCEPT !.depends_on_macros = deps]
                            ELSE StateGone]
        sources == [id \in {"source.pkg.stripe.charges"} |-> StateCharges]
        macros == [uid \in {"macro.a"} |-> Macro(1, <<>>)]
    IN  {StateManifest(Only(parsed(deps), {"model.pkg.orders"} \cup gone), sources, macros,
                       Only(parsed(deps), dis)) :
            deps \in {<<>>, <<"macro.a">>},
            gone \in SUBSET {"model.pkg.gone"},
            dis \in SUBSET {"model.pkg.orders", "model.pkg.gone"}}

StatePreviousManifests ==
    LET orders(v) == IF v = "same" THEN StateOrders
                     ELSE [StateOrders EXCEPT !.same = [ParsedParts EXCEPT ![v] = 2]]
        charges(v) == IF v = "same" THEN StateCharges
                      ELSE [StateCharges EXCEPT !.same = [SourceParts EXCEPT ![v] = 2]]
        parsed(v) == [id \in {"model.pkg.orders", "model.pkg.gone"} |->
                        IF id = "model.pkg.orders" THEN orders(v) ELSE StateGone]
        sources(v) == [id \in {"source.pkg.stripe.charges"} |-> charges(v)]
    IN  {StateManifest(Only(parsed(ov), had_orders \cup had_gone),
                       Only(sources(cv), had_charges),
                       [uid \in {"macro.a"} |-> Macro(macro_sql, <<>>)],
                       [id \in {} |-> BaseNode]) :
            ov \in {"same"} \cup DOMAIN ParsedParts,
            cv \in {"same"} \cup DOMAIN SourceParts,
            had_orders \in SUBSET {"model.pkg.orders"},
            had_gone \in SUBSET {"model.pkg.gone"},
            had_charges \in SUBSET {"source.pkg.stripe.charges"},
            macro_sql \in {1, 2}}

PreviousStateOf(old_manifest) ==
    [present |-> TRUE, manifest |-> old_manifest, results |-> Absent, sources |-> Absent,
     sources_current |-> Absent]

InitState ==
    /\ manifest \in StateCurrentManifests
    /\ previous_state \in {PreviousStateOf(old) : old \in StatePreviousManifests}
    /\ project_paths = {}
    /\ NoInstance

NextState ==
    \/ get_method({"state"}, {<<>>})
    \/ search_state
    \/ Consume

SpecState == InitState /\ [][NextState]_vars

(***************************************************************************)
(* SpecMacros: check_macros_modified over every dependency graph of three  *)
(* macros with at most MaxEdges edges, self-dependencies and cycles        *)
(* among them.  Each macro is unchanged or changed since the previous      *)
(* run, which may also have had a macro that is gone; the model depends    *)
(* on any of the three macros, the source has no depends_on.               *)
(***************************************************************************)
\* The most edges between macros in a dependency graph.
MaxEdges == 3

MacroIds == {"macro.a", "macro.b", "macro.c"}

MacroGraphs ==
    {g \in [MacroIds -> SUBSET MacroIds] :
        Cardinality({e \in MacroIds \X MacroIds : e[2] \in g[e[1]]}) <= MaxEdges}

MacroManifests ==
    {StateManifest([id \in {"model.pkg.orders"} |->
                        [StateOrders EXCEPT !.depends_on_macros = SelectIn(MacroOrder, deps)]],
                   [id \in {"source.pkg.stripe.charges"} |-> StateCharges],
                   [uid \in MacroIds |-> Macro(1, SelectIn(MacroOrder, g[uid]))],
                   [id \in {} |-> BaseNode]) :
        deps \in SUBSET MacroIds, g \in MacroGraphs}

\* the previous run's macros: the text of those in `changed` differs, and
\* those in `removed` are not in the current manifest
MacroPreviousManifests ==
    {StateManifest([id \in {} |-> BaseNode], [id \in {} |-> BaseNode],
                   [uid \in MacroIds \cup removed |->
                        Macro(IF uid \in changed THEN 2 ELSE 1, <<>>)],
                   [id \in {} |-> BaseNode]) :
        changed \in SUBSET MacroIds, removed \in SUBSET {"macro.r"}}

InitMacros ==
    /\ manifest \in MacroManifests
    /\ previous_state \in {PreviousStateOf(old) : old \in MacroPreviousManifests}
    /\ project_paths = {}
    /\ NoInstance

NextMacros ==
    \/ get_method({"state"}, {<<>>})
    \/ check_macros
    \/ Consume

SpecMacros == InitMacros /\ [][NextMacros]_vars

(***************************************************************************)
(* SpecFresh: source_status searches over a project of two sources and a   *)
(* model.  In the previous run and in the current run each source has no   *)
(* freshness record, a runtime-error record, or a record with a            *)
(* max_loaded_at of 1..MaxTime; the freshness artifacts may be missing.    *)
(***************************************************************************)
\* The latest max_loaded_at of a freshness record.
MaxTime == 2

FreshSources == {"source.pkg.stripe.charges", "source.pkg.stripe.events"}

FreshManifest ==
    [EmptyManifest EXCEPT
        !.nodes = <<"model.pkg.orders">>,
        !.sources = <<"source.pkg.stripe.charges", "source.pkg.stripe.events">>,
        !.node = [id \in {"model.pkg.orders"} \cup FreshSources |->
                    IF id = "model.pkg.orders" THEN StateOrders ELSE StateCharges]]

\* what a freshness run records for one source
FreshnessOutcomes ==
    {[kind |-> "none", at |-> 0], [kind |-> "error", at |-> 0]}
        \cup {[kind |-> "ok", at |-> t] : t \in 1..MaxTime}

\* the results of a freshness run, one record per source that has an outcome
FreshnessResults(outcome) ==
    Results({IF outcome[id].kind = "ok" THEN Fresh(id, outcome[id].at)
             ELSE FreshnessError(id) :
                id \in {i \in DOMAIN outcome : outcome[i].kind # "none"}})

FreshPreviousStates ==
    {[present |-> TRUE, manifest |-> NoManifest, results |-> Absent,
      sources |-> FreshnessResults(before), sources_current |-> FreshnessResults(now)] :
        before \in [FreshSources -> FreshnessOutcomes],
        now \in [FreshSources -> FreshnessOutcomes]}
    \cup {NoPreviousState,
          [present |-> TRUE, manifest |-> NoManifest, results |-> Absent,
           sources |-> Absent, sources_current |-> Results({})],
          [present |-> TRUE, manifest |-> NoManifest, results |-> Absent,
           sources |-> Results({}), sources_current |-> Absent]}

InitFresh ==
    /\ manifest = FreshManifest
    /\ previous_state \in FreshPreviousStates
    /\ project_paths = {}
    /\ NoInstance

NextFresh ==
    \/ get_method({"source_status"}, {<<>>})
    \/ search_source_status
    \/ Consume

SpecFresh == InitFresh /\ [][NextFresh]_vars

(***************************************************************************)
(* SpecTestType: test_type searches over projects holding any of a model,  *)
(* a generic test, a singular test and a unit test.                        *)
(***************************************************************************)
TestTypeManifests ==
    {Without([EmptyManifest EXCEPT
                !.nodes = <<"model.pkg.orders", "test.pkg.not_null", "test.pkg.check">>,
                !.unit_tests = <<"unit_test.pkg.ut">>,
                !.node = Only(SampleNodes, {"model.pkg.orders", "test.pkg.not_null",
                                            "test.pkg.check", "unit_test.pkg.ut"})],
             gone) :
        gone \in SUBSET {"model.pkg.orders", "test.pkg.not_null", "test.pkg.check",
                         "unit_test.pkg.ut"}}

InitTestType ==
    /\ manifest \in TestTypeManifests
    /\ previous_state = NoPreviousState
    /\ project_paths = {}
    /\ NoInstance

NextTestType ==
    \/ get_method({"test_type"}, {<<>>})
    \/ search_test_type
    \/ Consume

SpecTestType == InitTestType /\ [][NextTestType]_vars

(***************************************************************************)
(* SpecConfig: config searches over a project of one model and one source. *)
(* The model's config holds severity and enabled, each with any of the     *)
(* values below, and meta.nightly.                                         *)
(***************************************************************************)
ConfigValues ==
    {StrV(s_true), StrV(s_False), StrV(s_WARN), StrV(s_warn), BoolV(TRUE), BoolV(FALSE),
     NoneV, ListV(<<StrV(s_warn), BoolV(FALSE)>>)}

ConfigManifests ==
    {[EmptyManifest EXCEPT
        !.nodes = <<"model.pkg.orders">>,
        !.sources = <<"source.pkg.stripe.charges">>,
        !.node = [id \in {"model.pkg.orders", "source.pkg.stripe.charges"} |->
                    IF id = "model.pkg.orders"
                    THEN [StateOrders EXCEPT
                            !.config = [k \in {"severity", "enabled", "meta"} |->
                                CASE k = "severity" -> severity
                                  [] k = "enabled" -> enabled
                                  [] k = "meta" -> DictV([j \in {"nightly"} |-> BoolV(TRUE)])]]
                    ELSE [StateCharges EXCEPT
                            !.config = [k \in {"enabled"} |-> BoolV(TRUE)]]]] :
        severity \in ConfigValues, enabled \in ConfigValues}

InitConfig ==
    /\ manifest \in ConfigManifests
    /\ previous_state = NoPreviousState
    /\ project_paths = {}
    /\ NoInstance

NextConfig ==
    \/ get_method({"config"}, ConfigArguments)
    \/ search_config
    \/ Consume

SpecConfig == InitConfig /\ [][NextConfig]_vars

(***************************************************************************)
(* SpecVersion: version searches over projects holding any of a model      *)
(* (unversioned, or of version 1..MaxVersion with a latest version of      *)
(* 1..MaxVersion), a generic test and a source.                            *)
(***************************************************************************)
\* The highest version of a model.
MaxVersion == 2

\* the model of version v whose latest version is latest; 0 stands for None.
\* is_latest_version is the property of ModelNode: the version is the latest.
VersionedModel(v, latest) ==
    [StateOrders EXCEPT
        !.is_versioned = v # 0, !.has_version = v # 0, !.version = v,
        !.has_latest_version = latest # 0, !.latest_version = latest,
        !.is_latest_version = (v # 0 /\ v = latest)]

VersionManifests ==
    {Without([EmptyManifest EXCEPT
                !.nodes = <<"test.pkg.not_null", "model.pkg.orders">>,
                !.sources = <<"source.pkg.stripe.charges">>,
                !.node = [id \in {"test.pkg.not_null", "model.pkg.orders",
                                  "source.pkg.stripe.charges"} |->
                            CASE id = "model.pkg.orders" -> VersionedModel(v, latest)
                              [] id = "test.pkg.not_null" -> NotNullTest
                              [] id = "source.pkg.stripe.charges" -> StateCharges]],
             gone) :
        v \in 0..MaxVersion, latest \in 0..MaxVersion,
        gone \in SUBSET {"model.pkg.orders", "test.pkg.not_null"}}

InitVersion ==
    /\ manifest \in VersionManifests
    /\ previous_state = NoPreviousState
    /\ project_paths = {}
    /\ NoInstance

NextVersion ==
    \/ get_method({"version"}, {<<>>})
    \/ search_version
    \/ Consume

SpecVersion == InitVersion /\ [][NextVersion]_vars

(***************************************************************************)
(* Qualified names.  One model whose fqn is the package name followed by   *)
(* up to MaxFqnTail segments, a segment being a word or a dotted name; a   *)
(* versioned model has at least a name and a version after the package.    *)
(* node.name is the fqn's leaf, or the segment before the version.         *)
(***************************************************************************)
MaxFqnTail == 3

FqnSegments == {s_orders, s_v2, s_orders_dot_v2}

FqnChoices == {<<s_pkg>> \o rest : rest \in SeqsUpTo(FqnSegments, MaxFqnTail)}

NamedModel(fqn, is_versioned) ==
    [StateOrders EXCEPT
        !.fqn = fqn, !.is_versioned = is_versioned, !.has_version = is_versioned,
        !.version = IF is_versioned THEN 2 ELSE 0,
        !.name = IF is_versioned THEN fqn[Len(fqn) - 1] ELSE fqn[Len(fqn)]]

FqnManifests ==
    {[EmptyManifest EXCEPT
        !.nodes = <<"model.pkg.orders">>,
        !.node = [id \in {"model.pkg.orders"} |-> NamedModel(c[1], c[2])]] :
        c \in {c \in FqnChoices \X BOOLEAN : c[2] => Len(c[1]) >= 3}}

InitFqn ==
    /\ manifest \in FqnManifests
    /\ previous_state = NoPreviousState
    /\ project_paths = {}
    /\ NoInstance

NextFqn ==
    \/ get_method({"fqn"}, {<<>>})
    \/ search_fqn
    \/ Consume

SpecFqn == InitFqn /\ [][NextFqn]_vars

(***************************************************************************)
(* SpecMemo: searches and macro checks, one after another, on one          *)
(* StateSelectorMethod instance.  The project has the model orders, which  *)
(* depends on macro.a, and the source charges; the current manifest may    *)
(* have a macro.b the previous run had not, the previous run had macro.a   *)
(* with the same text, with another text or not at all, and may have had   *)
(* a macro.r and a model that are gone.                                    *)
(***************************************************************************)
MemoCurrentManifests ==
    {StateManifest([id \in {"model.pkg.orders"} |->
                        [StateOrders EXCEPT !.depends_on_macros = <<"macro.a">>]],
                   [id \in {"source.pkg.stripe.charges"} |-> StateCharges],
                   [uid \in {"macro.a"} \cup added |-> Macro(1, <<>>)],
                   [id \in {} |-> BaseNode]) :
        added \in SUBSET {"macro.b"}}

MemoPreviousManifests ==
    {StateManifest([id \in {"model.pkg.orders"} \cup had_gone |->
                        IF id = "model.pkg.orders" THEN StateOrders ELSE StateGone],
                   [id \in {"source.pkg.stripe.charges"} |-> StateCharges],
                   [uid \in had_a \cup removed |-> Macro(macro_sql, <<>>)],
                   [id \in {} |-> BaseNode]) :
        had_gone \in SUBSET {"model.pkg.gone"},
        had_a \in SUBSET {"macro.a"},
        removed \in SUBSET {"macro.r"},
        macro_sql \in {1, 2}}

InitMemo ==
    /\ manifest \in MemoCurrentManifests
    /\ previous_state \in {PreviousStateOf(old) : old \in MemoPreviousManifests}
    /\ project_paths = {}
    /\ NoInstance

NextMemo ==
    \/ get_method({"state"}, {<<>>})
    \/ search_state
    \/ check_macros
    \/ Consume

SpecMemo == InitMemo /\ [][NextMemo]_vars

(***************************************************************************)
(* Claims                                                                  *)
(***************************************************************************)
\* a search has run and returned without raising
SearchReturned == phase = "done" /\ error = "none" /\ ~macro_trace.ran

\* C1: whatever the method, the manifest, the included set and the selector,
\* every id a search yields without failing is in the included set and is a
\* key of one of the current manifest's seven mappings.
C1_YieldedWithinIncluded ==
    SearchReturned =>
        \A i \in 1..Len(yielded) :
            /\ yielded[i] \in included
            /\ yielded[i] \in ManifestIds(manifest)

\* a search yielded some ids while the included set also held an id of the
\* manifest it did not yield and an id that is no key of the manifest
C1_Witness ==
    /\ SearchReturned
    /\ yielded # <<>>
    /\ \E id \in included : id \in ManifestIds(manifest) /\ id \notin Range(yielded)
    /\ \E id \in included : id \notin ManifestIds(manifest)


\* a state search for sel has run on the instance (it may have raised)
StateSearched(sel) ==
    /\ phase = "done"
    /\ method = "StateSelectorMethod"
    /\ ~macro_trace.ran
    /\ selector = sel

\* what the same instance yields next for sel on the same included set
NextYield(sel) ==
    Range(StateSearch(manifest, previous_state, modified_macros, included, sel).yielded)

\* C2: with a previous manifest, the ids that search(included, "modified") and
\* search(included, "unmodified") yield partition the included ids that are
\* keys of the current manifest: each such id is yielded by exactly one of the
\* two searches, and neither yields any other id.
C2_ModifiedUnmodifiedPartition ==
    StateSearched(s_modified) =>
        LET present == included \cap ManifestIds(manifest)
            modified == Range(yielded)
            unmodified == NextYield(s_unmodified)
        IN  /\ modified \cup unmodified = present
            /\ modified \cap unmodified = {}

\* state:modified yielded one included id and left another to state:unmodified
C2_Witness ==
    /\ StateSearched(s_modified)
    /\ error = "none"
    /\ Range(yielded) # {}
    /\ NextYield(s_unmodified) # {}
    /\ included \ ManifestIds(manifest) # {}

\* the previous nodes that the removed-node pass of the search counts as removed
RemovedIds ==
    {id \in Range(previous_state.manifest.nodes) : is_removed(manifest, id)}

RemovedPassRan ==
    /\ \E sel \in {s_modified, s_unmodified, Dot(s_modified, s_contract)} : StateSearched(sel)
    /\ error = "none"

RECURSIVE ReachableMacros(_, _)
ReachableMacros(m, S) ==
    LET T == S \cup UNION {Range(m.macros[uid].depends_on_macros) :
                              uid \in S \cap DOMAIN m.macros}
    IN  IF T = S THEN S ELSE ReachableMacros(m, T)

MacrosChecked == macro_trace.ran /\ modified_macros # <<>>

\* C4: when modified_macros is not empty, check_macros_modified(node) is true
\* exactly when node has depends_on and some macro reachable from
\* node.depends_on.macros along the current macros' depends_on.macros is in
\* modified_macros.
C4_AffectedIffReachableModified ==
    MacrosChecked =>
        LET new == macro_trace.node
            affected ==
                /\ new.present
                /\ new.node.has_depends_on
                /\ ReachableMacros(manifest, Range(new.node.depends_on_macros))
                       \cap Range(modified_macros) # {}
        IN  macro_trace.result = affected

\* the node is affected through a macro it does not depend on directly, in a
\* graph with a cycle
C4_Witness ==
    /\ MacrosChecked
    /\ macro_trace.result
    /\ macro_trace.node.present
    /\ Range(macro_trace.node.node.depends_on_macros) \cap Range(modified_macros) = {}
    /\ \E uid \in DOMAIN manifest.macros :
           uid \in ReachableMacros(manifest, Range(manifest.macros[uid].depends_on_macros))

NoDuplicates(s) == \A i, j \in 1..Len(s) : s[i] = s[j] => i = j

\* C5: a call of check_macros_modified returns without exhausting the stack;
\* no macro is visited twice and no macro is the subject of two recursive
\* calls, so there are at most as many recursive calls as macros.
C5_EachMacroExpandedOnce ==
    macro_trace.ran =>
        /\ ~macro_trace.overflow
        /\ NoDuplicates(macro_trace.visited)
        /\ NoDuplicates(macro_trace.calls)
        /\ Len(macro_trace.calls) <= Cardinality(DOMAIN manifest.macros)

\* the traversal went through a self-dependent macro and a cycle of two and
\* found nothing modified
C5_Witness ==
    /\ MacrosChecked
    /\ ~macro_trace.result
    /\ Len(macro_trace.calls) >= 2
    /\ \E uid \in Range(macro_trace.calls) :
           uid \in Range(manifest.macros[uid].depends_on_macros)
    /\ \E u, v \in Range(macro_trace.calls) :
           /\ u # v
           /\ v \in Range(manifest.macros[u].depends_on_macros)
           /\ u \in Range(manifest.macros[v].depends_on_macros)


\* a search of an instance of class cls for sel has returned without raising
Returns(cls, sel) == SearchReturned /\ method = cls /\ selector = sel

\* the ids with a runtime-error record among the freshness results rs
HasErrorRecord(rs, id) == \E r \in rs.results : r.unique_id = id /\ ~r.has_max_loaded_at

\* C6: source_status:fresher yields no id that has a runtime-error record (one
\* without max_loaded_at) in the previous run's freshness results or in the
\* current run's, whatever its record in the other run.
C6_NoRuntimeErrorYielded ==
    Returns("SourceStatusSelectorMethod", s_fresher) =>
        \A id \in Range(yielded) :
            /\ ~HasErrorRecord(previous_state.sources, id)
            /\ ~HasErrorRecord(previous_state.sources_current, id)

\* C7: of the included ids of the current manifest that have no runtime-error
\* record in either run, source_status:fresher yields exactly those with a
\* current record whose max_loaded_at is strictly greater than that of every
\* previous record of the id (so also those with no previous record).
C7_FresherIffStrictlyNewer ==
    Returns("SourceStatusSelectorMethod", s_fresher) =>
        \A id \in included \cap ManifestIds(manifest) :
            (~HasErrorRecord(previous_state.sources, id)
                /\ ~HasErrorRecord(previous_state.sources_current, id))
            => (id \in Range(yielded)
                    <=> \E c \in previous_state.sources_current.results :
                            /\ c.unique_id = id
                            /\ \A p \in previous_state.sources.results :
                                   p.unique_id = id => c.max_loaded_at > p.max_loaded_at)

\* one source was yielded for a later max_loaded_at, the other, with the same
\* max_loaded_at as before, was not
C7_Witness ==
    /\ Returns("SourceStatusSelectorMethod", s_fresher)
    /\ \E id \in Range(yielded) :
           \E c \in previous_state.sources_current.results,
              p \in previous_state.sources.results :
               /\ c.unique_id = id /\ p.unique_id = id
               /\ p.has_max_loaded_at /\ c.max_loaded_at > p.max_loaded_at
    /\ \E id \in included \ Range(yielded) :
           \E c \in previous_state.sources_current.results,
              p \in previous_state.sources.results :
               /\ c.unique_id = id /\ p.unique_id = id
               /\ c.has_max_loaded_at /\ p.has_max_loaded_at
               /\ c.max_loaded_at = p.max_loaded_at

TestTypeKeywords == {s_generic, s_schema, s_data, s_singular, s_unit}

\* C8: a test_type search with one of the five keywords returns the included
\* tests of the keyword's classes, and a search with any other selector raises
\* and yields nothing.
C8_TestTypeLiteralKeywords ==
    (phase = "done" /\ method = "TestTypeSelectorMethod") =>
        IF selector \in TestTypeKeywords
        THEN LET classes ==
                     CASE selector \in {s_generic, s_schema} -> {"GenericTestNode"}
                       [] selector = s_data -> {"GenericTestNode", "SingularTestNode"}
                       [] selector = s_singular -> {"SingularTestNode"}
                       [] selector = s_unit -> {"UnitTestDefinition"}
             IN  /\ error = "none"
                 /\ Range(yielded) =
                        {id \in included \cap ManifestIds(manifest) :
                            manifest.node[id].cls \in classes}
        ELSE error = "DbtRuntimeError" /\ yielded = <<>>

\* the value the arguments resolve to in the config of node id; ok is FALSE
\* when a step of the path is missing
Resolved(id) == getattr_descend(DictV(manifest.node[id].config), arguments)

ConfigSearched == SearchReturned /\ method = "ConfigSelectorMethod"

\* the included configurable nodes whose config resolves to a non-sequence
Scalars ==
    {id \in included \cap (Range(manifest.nodes) \cup Range(manifest.sources)) :
        Resolved(id).ok /\ Resolved(id).value.t # "list"}

\* C9 as stated: a node whose config value is not a sequence is yielded exactly
\* when the selector equals the value, or the selector case-folds to "true" and
\* the value is True, or the selector case-folds to "false" and the value is
\* False.
C9_ScalarMatchLiteral ==
    ConfigSearched =>
        \A id \in Scalars :
            LET value == Resolved(id).value
            IN  id \in Range(yielded)
                    <=> \/ value = StrV(selector)
                        \/ Upper(selector) = Upper(s_true) /\ value = BoolV(TRUE)
                        \/ Upper(selector) = Upper(s_false) /\ value = BoolV(FALSE)

\* C9: a node whose config value is not a sequence is yielded exactly when the
\* value is a string equal to the selector (equal up to case when the arguments
\* are ["severity"]), or the selector case-folds to "true" and the value is
\* True, or the selector case-folds to "false" and the value is False.
C9_ScalarMatch ==
    ConfigSearched =>
        \A id \in Scalars :
            LET value == Resolved(id).value
            IN  id \in Range(yielded)
                    <=> \/ /\ value.t = "str"
                           /\ IF arguments = <<"severity">>
                              THEN Upper(value.v) = Upper(selector)
                              ELSE value.v = selector
                        \/ Upper(selector) = Upper(s_true) /\ value = BoolV(TRUE)
                        \/ Upper(selector) = Upper(s_false) /\ value = BoolV(FALSE)

\* a selector that case-folds to "false" was searched on a path other than
\* severity: the source, whose value is True, and the model, whose value is the
\* string "true", were both left out
C9_Witness ==
    /\ ConfigSearched
    /\ arguments = <<"enabled">>
    /\ selector = s_FALSE
    /\ yielded = <<>>
    /\ \E id \in Scalars : Resolved(id).value = BoolV(TRUE)
    /\ \E id \in Scalars : Resolved(id).value = StrV(s_true)

\* C10: a version search with a selector other than latest, prerelease, old and
\* none raises, whatever the manifest and the included set.
C10_InvalidVersionSelectorFails ==
    (phase = "done" /\ method = "VersionSelectorMethod"
        /\ selector \notin {s_latest, s_prerelease, s_old, s_none})
    => error = "DbtRuntimeError"


\* the previous state lacks what the class of the instance needs
RequiredStateMissing ==
    \/ ~previous_state.present
    \/ method = "StateSelectorMethod" /\ ~previous_state.manifest.present
    \/ method = "ResultSelectorMethod" /\ ~previous_state.results.present
    \/ method = "SourceStatusSelectorMethod"
           /\ (~previous_state.sources.present \/ ~previous_state.sources_current.present)

StateDependentSearched ==
    /\ phase = "done"
    /\ ~macro_trace.ran
    /\ method \in {"StateSelectorMethod", "ResultSelectorMethod", "SourceStatusSelectorMethod"}

UniqueKeys ==
    NoDuplicates(manifest.nodes \o manifest.sources \o manifest.exposures
                     \o manifest.metrics \o manifest.unit_tests
                     \o manifest.semantic_models \o manifest.saved_queries)

\* C12: when no id is a key of more than one mapping of the current manifest,
\* the sequence a search of any selector method yields holds each id at most
\* once.
C12_YieldedOnce ==
    (SearchReturned /\ UniqueKeys) => NoDuplicates(yielded)


FqnSearched == SearchReturned /\ method = "QualifiedNameSelectorMethod"

\* the dot-separated items of every segment of fqn, in order
FlatFqn(fqn) == Flatten([i \in 1..Len(fqn) |-> Split(fqn[i], ".")])

\* parts is a prefix, element by element, of flat
IsPrefix(parts, flat) ==
    Len(parts) <= Len(flat) /\ \A i \in 1..Len(parts) : parts[i] = flat[i]

\* C14: a selector without wildcard characters selects a non-versioned node
\* exactly when it equals the fqn's last element, or its dot-separated parts
\* are a prefix of the flattened fqn, or of the flattened fqn without its
\* package (whose last element is the fqn's last element too).
C14_LiteralSelectorMatch ==
    (FqnSearched /\ ~HasWildcard(selector)) =>
        \A id \in included \cap Range(manifest.nodes) :
            LET node  == manifest.node[id]
                parts == Split(selector, ".")
            IN  ~node.is_versioned =>
                    (id \in Range(yielded)) =
                        \/ selector = node.fqn[Len(node.fqn)]
                        \/ IsPrefix(parts, FlatFqn(node.fqn))
                        \/ selector = Tail(node.fqn)[Len(node.fqn) - 1]
                        \/ IsPrefix(parts, FlatFqn(Tail(node.fqn)))

\* a dotted selector that is no leaf and no prefix of the whole fqn selected a
\* non-versioned node through the fqn without its package
C14_Witness ==
    /\ FqnSearched
    /\ ~HasWildcard(selector)
    /\ Len(Split(selector, ".")) >= 2
    /\ \E id \in Range(yielded) :
           /\ ~manifest.node[id].is_versioned
           /\ selector # manifest.node[id].fqn[Len(manifest.node[id].fqn)]
           /\ ~IsPrefix(Split(selector, "."), FlatFqn(manifest.node[id].fqn))

\* the three spellings of a versioned model: name, name.version, name_version
VersionedSpellings(fqn) ==
    LET name    == fqn[Len(fqn) - 1]
        version == fqn[Len(fqn)]
    IN  {name, Dot(name, version), name \o <<"_">> \o version}

\* C15: for a versioned model whose fqn ends in name, version, is_selected_node
\* matches the selectors name, name.version and name_version.
C15_VersionedSpellingsMatch ==
    FqnSearched =>
        \A id \in included \cap Range(manifest.nodes) :
            LET node == manifest.node[id]
            IN  (node.is_versioned /\ selector \in VersionedSpellings(node.fqn)) =>
                    is_selected_node(node.fqn, selector, TRUE)

\* the two fqns node_is_match hands to is_selected_node: the whole fqn and the
\* fqn without its package
FqnsTried(fqn) == {fqn, Tail(fqn)}

\* C20: is_selected_node returns false whenever the selector has more
\* dot-separated components than the flattened fqn has segments, for versioned
\* and non-versioned nodes alike.
C20_LongerSelectorNeverMatches ==
    FqnSearched =>
        \A id \in included \cap Range(manifest.nodes) :
            \A fqn \in FqnsTried(manifest.node[id].fqn) :
                Len(Split(selector, ".")) > Len(FlatFqn(fqn)) =>
                    ~is_selected_node(fqn, selector, manifest.node[id].is_versioned)

\* the package, source name and table a source selector of 1, 2 or 3 parts names
SourceTargets(parts) ==
    CASE Len(parts) = 1 -> [package |-> s_star, source |-> parts[1], table |-> s_star]
      [] Len(parts) = 2 -> [package |-> s_star, source |-> parts[1], table |-> parts[2]]
      [] Len(parts) = 3 -> [package |-> parts[1], source |-> parts[2], table |-> parts[3]]

\* the package and name a selector of 1 or 2 parts names
NameTargets(parts) ==
    CASE Len(parts) = 1 -> [package |-> s_star, name |-> parts[1]]
      [] Len(parts) = 2 -> [package |-> parts[1], name |-> parts[2]]

\* the mapping each of the five name matchers searches
NameMatchers ==
    [ExposureSelectorMethod |-> manifest.exposures,
     MetricSelectorMethod |-> manifest.metrics,
     SemanticModelSelectorMethod |-> manifest.semantic_models,
     SavedQuerySelectorMethod |-> manifest.saved_queries,
     UnitTestSelectorMethod |-> manifest.unit_tests]

\* C16: a source selector of 1, 2 or 3 dot-separated parts names the source,
\* the source and its table, or the package, the source and the table, what
\* is not named being '*'; an exposure, metric, semantic_model, saved_query or
\* unit_test selector of 1 or 2 parts names the name, or the package and the
\* name; the search yields the included nodes of its kind that match, and a
\* selector of more parts fails with DbtRuntimeError and yields nothing.
C16_DottedSelectorParts ==
    LET parts == Split(selector, ".")
    IN  /\ (phase = "done" /\ method = "SourceSelectorMethod") =>
              IF Len(parts) >= 4
              THEN error = "DbtRuntimeError" /\ yielded = <<>>
              ELSE /\ error = "none"
                   /\ yielded = SelectIn(manifest.sources,
                         {id \in included \cap Range(manifest.sources) :
                            /\ fnmatch(manifest.node[id].package_name, SourceTargets(parts).package)
                            /\ fnmatch(manifest.node[id].source_name, SourceTargets(parts).source)
                            /\ fnmatch(manifest.node[id].name, SourceTargets(parts).table)})
        /\ (phase = "done" /\ method \in DOMAIN NameMatchers) =>
              IF Len(parts) >= 3
              THEN error = "DbtRuntimeError" /\ yielded = <<>>
              ELSE /\ error = "none"
                   /\ yielded = SelectIn(NameMatchers[method],
                         {id \in included \cap Range(NameMatchers[method]) :
                            /\ fnmatch(manifest.node[id].package_name, NameTargets(parts).package)
                            /\ fnmatch(manifest.node[id].name, NameTargets(parts).name)})

\* a source selector of two parts, source and table, selected a source
C16_Witness ==
    /\ phase = "done"
    /\ method = "SourceSelectorMethod"
    /\ Len(Split(selector, ".")) = 2
    /\ ~HasWildcard(selector)
    /\ yielded # <<>>

\* the predicate each of the four sub-selectors compares with
ComparedBy ==
    [sel \in {Dot(s_modified, s_body), Dot(s_modified, s_configs),
              Dot(s_modified, s_persisted_descriptions), Dot(s_modified, s_relation)} |->
        CASE sel = Dot(s_modified, s_body) -> "same_body"
          [] sel = Dot(s_modified, s_configs) -> "same_config"
          [] sel = Dot(s_modified, s_persisted_descriptions) -> "same_persisted_description"
          [] sel = Dot(s_modified, s_relation) -> "same_database_representation"]

\* a search for one of the four sub-selectors has returned
PartSearched ==
    /\ phase = "done"
    /\ method = "StateSelectorMethod"
    /\ ~macro_trace.ran
    /\ error = "none"
    /\ selector \in DOMAIN ComparedBy

\* C17: state:modified.body, .configs, .persisted_descriptions and .relation
\* yield an included node of the current manifest exactly when the node has
\* the sub-selector's predicate and either there is no previous node of its
\* id or the predicate says the two differ; a node without the predicate is
\* never yielded, new or not.
C17_PartModified ==
    PartSearched =>
        /\ Range(yielded) \subseteq included \cap ManifestIds(manifest)
        /\ \A id \in included \cap ManifestIds(manifest) :
               LET new == manifest.node[id]
                   old == previous_node(previous_state.manifest, id)
                   compare_method == ComparedBy[selector]
               IN  (id \in Range(yielded)) =
                       /\ compare_method \in DOMAIN new.same
                       /\ \/ ~old.present
                          \/ ~same_part(new, old.node, compare_method)

\* of two included nodes without a previous node, the one that has the
\* predicate was yielded and the one that lacks it was not
C17_Witness ==
    /\ PartSearched
    /\ \E id \in Range(yielded) : id \notin ManifestIds(previous_state.manifest)
    /\ \E id \in (included \cap ManifestIds(manifest)) \ Range(yielded) :
           /\ id \notin ManifestIds(previous_state.manifest)
           /\ ComparedBy[selector] \notin DOMAIN manifest.node[id].same

\* the macro ids of both manifests whose macro_sql differs
DifferingMacros ==
    {uid \in DOMAIN manifest.macros \cap DOMAIN previous_state.manifest.macros :
        manifest.macros[uid].macro_sql # previous_state.manifest.macros[uid].macro_sql}

\* the macro ids of the current manifest only, and of the previous manifest only
CurrentOnlyMacros == DOMAIN manifest.macros \ DOMAIN previous_state.manifest.macros

PreviousOnlyMacros == DOMAIN previous_state.manifest.macros \ DOMAIN manifest.macros

\* the step is one of the same instance: a search, a macro check, or the
\* caller consuming the result; get_method makes a new instance
SameInstance == phase = "done" \/ phase' = "done"

\* C18: on one StateSelectorMethod instance modified_macros is unset or holds,
\* as a set, the macros whose text differs between the two manifests, those of
\* the current manifest only and those of the previous manifest only; once set,
\* no later search or macro check on the instance changes it.
C18_ModifiedMacrosMemoized ==
    [][/\ modified_macros' # None =>
              Range(modified_macros') =
                  DifferingMacros \cup CurrentOnlyMacros \cup PreviousOnlyMacros
       /\ (modified_macros # None /\ SameInstance) => modified_macros' = modified_macros
      ]_vars

\* a search has run on an instance whose modified_macros holds a macro of each
\* of the three kinds
C18_Witness ==
    /\ phase = "done"
    /\ method = "StateSelectorMethod"
    /\ ~macro_trace.ran
    /\ modified_macros # None
    /\ \E uid \in Range(modified_macros) : uid \in DifferingMacros
    /\ \E uid \in Range(modified_macros) : uid \in CurrentOnlyMacros
    /\ \E uid \in Range(modified_macros) : uid \in PreviousOnlyMacros

\* the classes whose search iterates all_nodes
AllNodesMethods ==
    {"TagSelectorMethod", "PathSelectorMethod", "FileSelectorMethod",
     "PackageSelectorMethod", "ResourceTypeSelectorMethod", "StateSelectorMethod",
     "ResultSelectorMethod", "SourceStatusSelectorMethod"}

\* the current manifest's mappings in the order parsed nodes, sources,
\* exposures, metrics, unit_tests, semantic_models, saved_queries
KindsInOrder ==
    <<manifest.nodes, manifest.sources, manifest.exposures, manifest.metrics,
      manifest.unit_tests, manifest.semantic_models, manifest.saved_queries>>

\* the first mapping that holds id, and the position of id in it
KindOf(id) == CHOOSE k \in 1..7 :
    id \in Range(KindsInOrder[k]) /\ \A j \in 1..(k - 1) : id \notin Range(KindsInOrder[j])

\* a comes before b: in an earlier mapping, or earlier in the same mapping
Before(a, b) ==
    \/ KindOf(a) < KindOf(b)
    \/ KindOf(a) = KindOf(b)
           /\ FirstIndex(KindsInOrder[KindOf(a)], a) < FirstIndex(KindsInOrder[KindOf(b)], b)

\* C19: all_nodes yields exactly the included ids that are keys of a mapping of
\* the current manifest, each once, kind after kind in the order parsed nodes,
\* sources, exposures, metrics, unit_tests, semantic_models, saved_queries and
\* in insertion order within a kind; a search of tag, path, file, package,
\* resource_type, state, result or source_status yields its ids in that order.
C19_AllNodesOrder ==
    (phase = "done" /\ method \in AllNodesMethods /\ ~macro_trace.ran) =>
        LET seq == all_nodes(manifest, included)
        IN  /\ Range(seq) = included \cap ManifestIds(manifest)
            /\ \A i, j \in 1..Len(seq) : i < j => Before(seq[i], seq[j])
            /\ \A i, j \in 1..Len(yielded) :
                   i < j => (yielded[i] = yielded[j] \/ Before(yielded[i], yielded[j]))

\* a search yielded two parsed nodes and then a node of another kind
C19_Witness ==
    /\ phase = "done"
    /\ method \in AllNodesMethods
    /\ ~macro_trace.ran
    /\ Len(yielded) >= 3
    /\ yielded[1] # yielded[2]
    /\ {yielded[1], yielded[2]} \subseteq Range(manifest.nodes)
    /\ yielded[Len(yielded)] \notin Range(manifest.nodes)

====
